---- MODULE Spec2Model ----
(***************************************************************************)
(* The ICE connectivity-check engine of mediastreamer2 (src/src/ice.c) as  *)
(* a state machine.                                                        *)
(*                                                                         *)
(* One agent is one record: the fields of its IceSession and of the        *)
(* session's IceCheckList, the heap of IceCandidatePair objects the lists  *)
(* point into, and what the agent did during its last step (the packets it *)
(* sent, the callbacks it invoked).  Pointers are indices: a candidate     *)
(* pointer is an index into local_candidates or remote_candidates, a pair  *)
(* pointer is an index into heap.  Every function of ice.c is an operator  *)
(* from the agent before the call to the agent after it.                   *)
(***************************************************************************)
EXTENDS Integers, Sequences, FiniteSets, TLC

VARIABLES
    ag,     \* agent name -> agent record (session + check list)
    net,    \* STUN packets in flight between two agents
    budget  \* number of packets the environment of a lone agent may still send

vars == <<ag, net, budget>>

(***************************************************************************)
(* Bounds of the model.                                                    *)
(***************************************************************************)
\* The ticker time (ms) is not advanced beyond this value.
MaxTime == 150
\* No more than this many STUN transactions are started by one agent.
MaxTid == 4
\* The environment of a lone agent sends it no more than this many packets.
MaxPackets == 3
\* The same where the environment also sends all-zero transaction IDs.
ZeroMaxPackets == 2
\* The number of candidates the application adds to a check list before it
\* pairs them.
MaxAdds == 4

\* The ticker time (ms) of two agents that both start Controlling is not
\* advanced beyond this value.
ConflictMaxTime == 100

\* The ticker time (ms) of two agents that talk to each other is not advanced
\* beyond this value.
PairMaxTime == 1000

\* The ticker time (ms) of an agent with a silent peer is not advanced
\* beyond this value.
SilentMaxTime == 27000

\* The last time (ms) of the specification of the keep-alives: past the
\* second keep-alive of a check list completed within the first second.
KeepMaxTime == 31000

\* The number of host candidates each side offers for component 1 in the
\* specification of the candidate limit.
NbHosts == 11

\* The number of pairs whose 64-bit priorities are compared.
MaxPriorityPairs == 2

\* The ticker time (ms) of the specification of the pacing is not advanced
\* beyond this value, and its environment sends no more than PaceMaxPackets
\* packets.
PaceMaxTime == 100
PaceMaxPackets == 2

(***************************************************************************)
(* Constants of the program.                                               *)
(***************************************************************************)
ICE_MAX_NB_CANDIDATES == 10
ICE_MAX_NB_CANDIDATE_PAIRS == 100
ICE_INVALID_COMPONENTID == 0
ICE_DEFAULT_TA_DURATION == 20
ICE_DEFAULT_RTO_DURATION == 100
ICE_DEFAULT_KEEPALIVE_TIMEOUT == 15
ICE_MAX_RETRANSMISSIONS == 7

CandidateTypes == {"host", "srflx", "prflx", "relay"}

MIN(a, b) == IF a < b THEN a ELSE b
MAX(a, b) == IF a > b THEN a ELSE b

(***************************************************************************)
(* The MSList primitive as ice.c uses it.                                  *)
(***************************************************************************)
\* ms_list_find_custom: the index of the first element satisfying Test, 0
\* when there is none (NULL).
FindFrom(list, Test(_), i) ==
    IF \E j \in i..Len(list) : Test(list[j])
    THEN CHOOSE j \in i..Len(list) : Test(list[j]) /\ \A k \in i..(j - 1) : ~Test(list[k])
    ELSE 0

ms_list_find_custom(list, Test(_)) == FindFrom(list, Test, 1)

\* ms_list_remove_link: the list without its i-th element.
ms_list_remove_link(list, i) ==
    SubSeq(list, 1, i - 1) \o SubSeq(list, i + 1, Len(list))

\* ms_list_insert_sorted with a comparison that returns 1 when the new
\* element ranks below the one it is compared with: the new element goes
\* before the first element it does not rank below, else to the end.
ms_list_insert_sorted(list, data, Below(_, _)) ==
    LET i == ms_list_find_custom(list, LAMBDA e : ~Below(data, e))
    IN IF i = 0 THEN Append(list, data)
       ELSE SubSeq(list, 1, i - 1) \o <<data>> \o SubSeq(list, i, Len(list))

\* ms_list_for_each2 threaded through a state: Step(acc, element) for the
\* elements lo..hi in list order.  The range is halved, and the first half
\* is computed before the second is entered, so that a list of a hundred
\* pairs is walked with a recursion a few levels deep.
RECURSIVE FoldFrom(_, _, _, _, _)
FoldFrom(list, Step(_, _), acc, lo, hi) ==
    IF lo > hi THEN acc
    ELSE IF lo = hi THEN Step(acc, list[lo])
    ELSE CHOOSE walked \in
            {FoldFrom(list, Step, first, (lo + hi) \div 2 + 1, hi) :
                first \in {FoldFrom(list, Step, acc, lo, (lo + hi) \div 2)}} : TRUE

ms_list_for_each2(list, Step(_, _), acc) == FoldFrom(list, Step, acc, 1, Len(list))

(***************************************************************************)
(* Candidates.                                                             *)
(***************************************************************************)
type_preference_values(type) ==
    CASE type = "host" -> 126
      [] type = "srflx" -> 100
      [] type = "prflx" -> 110
      [] type = "relay" -> 0

\* (type_preference << 24) | (local_preference << 8) | (256 - componentID)
ice_compute_candidate_priority(candidate) ==
    [candidate EXCEPT !.priority =
        type_preference_values(candidate.type) * 16777216
        + 65535 * 256 + (256 - candidate.componentID)]

ice_compare_transport_addresses(ta1, ta2) ==
    ~(ta1.port = ta2.port /\ ta1.ip = ta2.ip)

\* The candidate appended to list, or list unchanged (NULL is returned) when
\* the list is full or the type is unknown.  base is a pointer into the same
\* list, 0 for NULL.
ice_add_candidate(list, type, ip, port, componentID) ==
    IF Len(list) >= ICE_MAX_NB_CANDIDATES \/ type \notin CandidateTypes
    THEN list
    ELSE Append(list,
            [type |-> type, taddr |-> [ip |-> ip, port |-> port],
             componentID |-> componentID, priority |-> 0, foundation |-> "",
             base |-> IF type \in {"host", "relay"} THEN Len(list) + 1 ELSE 0])

ice_add_componentID(cl, componentID) ==
    IF ms_list_find_custom(cl.componentIDs, LAMBDA c : c = componentID) = 0
    THEN [cl EXCEPT !.componentIDs = Append(@, componentID)]
    ELSE cl

ice_add_local_candidate(cl, type, ip, port, componentID, base) ==
    LET list == ice_add_candidate(cl.local_candidates, type, ip, port, componentID)
        n == Len(list)
    IN IF n = Len(cl.local_candidates) THEN cl
       ELSE LET c1 == IF list[n].base = 0 THEN [list[n] EXCEPT !.base = base]
                      ELSE list[n]
                c2 == ice_compute_candidate_priority(c1)
            IN ice_add_componentID(
                   [cl EXCEPT !.local_candidates = [list EXCEPT ![n] = c2]],
                   componentID)

ice_add_remote_candidate(cl, type, ip, port, componentID, priority, foundation) ==
    LET list == ice_add_candidate(cl.remote_candidates, type, ip, port, componentID)
        n == Len(list)
    IN IF n = Len(cl.remote_candidates) THEN cl
       ELSE LET c1 == IF priority = 0 THEN ice_compute_candidate_priority(list[n])
                      ELSE [list[n] EXCEPT !.priority = priority]
            IN [cl EXCEPT !.remote_candidates =
                    [list EXCEPT ![n] = [c1 EXCEPT !.foundation = foundation]]]

ice_find_candidate_with_same_foundation(cl, i, j) ==
    LET c1 == cl.local_candidates[i]
        c2 == cl.local_candidates[j]
    IN /\ i # j
       /\ c1.base # 0
       /\ c2.base # 0
       /\ c1.type = c2.type
       /\ cl.local_candidates[c1.base].taddr.ip = cl.local_candidates[c2.base].taddr.ip

\* The foundation of local candidate j: that of the first other candidate of
\* the same type and base address if it has one, else a new one.
ice_compute_candidate_foundation(cl, j) ==
    LET idx == [i \in 1..Len(cl.local_candidates) |-> i]
        l == ms_list_find_custom(idx,
                LAMBDA i : ice_find_candidate_with_same_foundation(cl, i, j))
    IN IF l # 0 /\ cl.local_candidates[l].foundation # ""
       THEN [cl EXCEPT !.local_candidates[j].foundation =
                            cl.local_candidates[l].foundation]
       ELSE [cl EXCEPT !.local_candidates[j].foundation =
                            ToString(cl.foundation_generator),
                       !.foundation_generator = @ + 1]

ice_check_list_compute_candidates_foundations(cl) ==
    ms_list_for_each2([i \in 1..Len(cl.local_candidates) |-> i],
                      ice_compute_candidate_foundation, cl)

\* TRUE when the candidate is found (the C function returns 0).
ice_find_host_candidate(candidate, componentID) ==
    candidate.type = "host" /\ candidate.componentID = componentID

\* base is a pointer into the list of local candidates.
ice_set_base_for_srflx_candidate(cl, j, base) ==
    IF /\ cl.local_candidates[j].type = "srflx"
       /\ cl.local_candidates[j].base = 0
       /\ cl.local_candidates[j].componentID = cl.local_candidates[base].componentID
    THEN [cl EXCEPT !.local_candidates[j].base = base]
    ELSE cl

ice_set_base_for_srflx_candidate_with_componentID(cl, componentID) ==
    LET elem == ms_list_find_custom(cl.local_candidates,
                    LAMBDA c : ice_find_host_candidate(c, componentID))
    IN IF elem # 0
       THEN ms_list_for_each2([j \in 1..Len(cl.local_candidates) |-> j],
                LAMBDA c, j : ice_set_base_for_srflx_candidate(c, j, elem), cl)
       ELSE cl

ice_check_list_set_base_for_srflx_candidates(cl) ==
    ms_list_for_each2(cl.componentIDs,
                      ice_set_base_for_srflx_candidate_with_componentID, cl)

(***************************************************************************)
(* Candidate pairs.  A pair priority is the 64-bit value                   *)
(* (MIN(G,D) << 32) | (MAX(G,D) << 1) | (G > D ? 1 : 0), kept as its three *)
(* fields <<MIN(G,D), MAX(G,D), G > D>> and compared field by field, which *)
(* is the order of the 64-bit values for candidate priorities below 2^31.  *)
(***************************************************************************)
\* The value of a field that was allocated and never written.
Uninitialized == -1

ice_compute_pair_priority(cl, pair, role) ==
    LET lp == cl.local_candidates[pair.local].priority
        rp == cl.remote_candidates[pair.remote].priority
        G == IF role = "Controlling" THEN lp ELSE rp
        D == IF role = "Controlling" THEN rp ELSE lp
    IN [pair EXCEPT !.priority = <<MIN(G, D), MAX(G, D), IF G > D THEN 1 ELSE 0>>]

\* p1->priority < p2->priority
PriorityLess(p1, p2) ==
    \/ p1[1] < p2[1]
    \/ p1[1] = p2[1] /\ p1[2] < p2[2]
    \/ p1[1] = p2[1] /\ p1[2] = p2[2] /\ p1[3] < p2[3]

ice_compare_pair_priorities(cl, p1, p2) ==
    PriorityLess(cl.heap[p1].priority, cl.heap[p2].priority)

\* ice_pair_set_state that leaves the transaction ID of the pair as it is.
pair_set_state_keeping_transaction(pair, state) ==
    IF pair.state # state
    THEN [pair EXCEPT !.state = state]
    ELSE pair

ice_pair_set_state(pair, state) ==
    IF pair.state # state
    THEN [pair EXCEPT !.state = state,
                      !.transactionID = IF state \in {"Failed", "Waiting"} THEN 0 ELSE @]
    ELSE pair

\* The new pair, allocated at the end of the heap.  transmission_time is not
\* written by ice_pair_new.  first_sent is not a field of the program: it
\* holds the time of the first transmission of the pair once it was sent.
ice_pair_new(cl, local_candidate, remote_candidate) ==
    ice_compute_pair_priority(cl,
        [local |-> local_candidate, remote |-> remote_candidate,
         state |-> "Frozen", is_nominated |-> FALSE,
         wait_transaction_timeout |-> FALSE, transactionID |-> 0,
         rto |-> ICE_DEFAULT_RTO_DURATION, retransmissions |-> 0,
         role |-> cl.role, transmission_time |-> Uninitialized,
         priority |-> <<0, 0, 0>>, freed |-> FALSE, first_sent |-> <<>>],
        cl.role)

\* cl->pairs = ms_list_append(cl->pairs, ice_pair_new(...))
AppendNewPair(cl, local_candidate, remote_candidate) ==
    [cl EXCEPT !.heap = Append(@, ice_pair_new(cl, local_candidate, remote_candidate)),
               !.pairs = Append(@, Len(cl.heap) + 1)]

ice_check_list_compute_pair_priorities(cl) ==
    [cl EXCEPT !.heap = [p \in 1..Len(cl.heap) |->
        IF \E k \in 1..Len(cl.pairs) : cl.pairs[k] = p
        THEN ice_compute_pair_priority(cl, cl.heap[p], cl.role)
        ELSE cl.heap[p]]]

ice_session_set_role(cl, role) ==
    IF cl.role # role
    THEN ice_check_list_compute_pair_priorities([cl EXCEPT !.role = role])
    ELSE cl

(***************************************************************************)
(* Pairing: form the pairs, prune them, create the check list, set the     *)
(* initial pair states.                                                    *)
(***************************************************************************)
\* The two nested loops: every local candidate, in list order, with every
\* remote candidate, in list order.
ice_form_candidate_pairs(cl) ==
    LET nr == Len(cl.remote_candidates)
        both == [k \in 1..(Len(cl.local_candidates) * nr) |->
                    <<((k - 1) \div nr) + 1, ((k - 1) % nr) + 1>>]
        Form(c, lr) ==
            IF c.local_candidates[lr[1]].componentID = c.remote_candidates[lr[2]].componentID
            THEN AppendNewPair(c, lr[1], lr[2]) ELSE c
    IN ms_list_for_each2(both, Form, cl)

ice_replace_srflx_by_base_in_pair(cl, pair) ==
    IF cl.local_candidates[pair.local].type = "srflx"
    THEN [pair EXCEPT !.local = cl.local_candidates[pair.local].base]
    ELSE pair

ice_compare_candidates(c1, c2) ==
    ~(/\ c1.type = c2.type
      /\ ~ice_compare_transport_addresses(c1.taddr, c2.taddr)
      /\ c1.componentID = c2.componentID
      /\ c1.priority = c2.priority)

ice_compare_pairs(cl, p1, p2) ==
    ~(/\ ~ice_compare_candidates(cl.local_candidates[cl.heap[p1].local],
                                 cl.local_candidates[cl.heap[p2].local])
      /\ ~ice_compare_candidates(cl.remote_candidates[cl.heap[p1].remote],
                                 cl.remote_candidates[cl.heap[p2].remote]))

\* TRUE when the pair is pruned: the first pair of cl->pairs that compares
\* equal to it has a higher priority.
ice_prune_duplicate_pair(cl, pair) ==
    LET other == ms_list_find_custom(cl.pairs, LAMBDA q : ~ice_compare_pairs(cl, q, pair))
    IN other # 0 /\ PriorityLess(cl.heap[pair].priority, cl.heap[cl.pairs[other]].priority)

\* The loop of ice_prune_candidate_pairs over cl->pairs from position i on:
\* after a removal it goes on from the element before the removed one, and
\* stops when the removed element was the first or the last of the list.
RECURSIVE PruneDuplicatesFrom(_, _)
PruneDuplicatesFrom(cl, i) ==
    CHOOSE walked \in
        {IF first = 0 THEN cl
         ELSE LET removed == [cl EXCEPT !.pairs = ms_list_remove_link(@, first),
                                        !.heap[cl.pairs[first]].freed = TRUE]
              IN IF first < Len(cl.pairs) /\ first > 1
                 THEN PruneDuplicatesFrom(removed, first)
                 ELSE removed :
         first \in {FindFrom(cl.pairs, LAMBDA pair : ice_prune_duplicate_pair(cl, pair), i)}} :
        TRUE

ice_create_check_list(cl, pair) ==
    [cl EXCEPT !.check_list = ms_list_insert_sorted(@, pair,
                    LAMBDA p1, p2 : ice_compare_pair_priorities(cl, p1, p2))]

ice_prune_candidate_pairs(cl) ==
    LET replaced == [cl EXCEPT !.heap = [p \in 1..Len(cl.heap) |->
                        ice_replace_srflx_by_base_in_pair(cl, cl.heap[p])]]
        pruned == PruneDuplicatesFrom(replaced, 1)
        listed == ms_list_for_each2(pruned.pairs, ice_create_check_list, pruned)
        nb_pairs == Len(listed.check_list)
        keep == listed.max_connectivity_checks
    IN IF nb_pairs > keep
       THEN [listed EXCEPT
                !.check_list = SubSeq(@, 1, keep),
                !.heap = [p \in 1..Len(listed.heap) |->
                    IF \E k \in (keep + 1)..nb_pairs : listed.check_list[k] = p
                    THEN [listed.heap[p] EXCEPT !.freed = TRUE]
                    ELSE listed.heap[p]]]
       ELSE listed

ice_find_lowest_componentid_pair_with_specified_foundation(cl, fc, pair) ==
    IF \/ fc.componentID = ICE_INVALID_COMPONENTID
       \/ /\ cl.local_candidates[cl.heap[pair].local].componentID < fc.componentID
          /\ PriorityLess(fc.priority, cl.heap[pair].priority)
    THEN [componentID |-> cl.local_candidates[cl.heap[pair].local].componentID,
          priority |-> cl.heap[pair].priority, pair |-> pair]
    ELSE fc

ice_compute_pairs_states(cl) ==
    LET fc == ms_list_for_each2(cl.check_list,
                LAMBDA f, p : ice_find_lowest_componentid_pair_with_specified_foundation(cl, f, p),
                [componentID |-> ICE_INVALID_COMPONENTID, priority |-> <<0, 0, 0>>, pair |-> 0])
    IN IF fc.pair # 0
       THEN [cl EXCEPT !.heap[fc.pair] = ice_pair_set_state(@, "Waiting")]
       ELSE cl

ice_check_list_pair_candidates(cl, first_media_stream) ==
    LET pruned == ice_prune_candidate_pairs(ice_form_candidate_pairs(cl))
    IN IF first_media_stream THEN ice_compute_pairs_states(pruned) ELSE pruned

ice_session_pair_candidates(cl) ==
    [ice_check_list_pair_candidates(cl, TRUE) EXCEPT !.session_state = "Running"]

(***************************************************************************)
(* Session and check list initialisation.                                  *)
(***************************************************************************)
\* ice_session_new, ice_check_list_new and ice_session_add_check_list: the
\* session with its one check list.  tie_breaker and the local credentials
\* are drawn at random by ice_session_init; time is the ticker's time and
\* loc_ip, loc_port the address of the RTP socket of the RtpSession (the
\* RTCP socket is at loc_port + 1).  next_tid, out, success_cb_calls and
\* concluded are not fields of the program: the next transaction ID the
\* STUN encoder draws, the packets sent, the number of success_cb
\* invocations and whether the last step ran ice_conclude_processing.
ice_session_init(tie_breaker, ufrag, pwd, loc_ip, loc_port) ==
    [session_state |-> "Stopped", role |-> "Controlling",
     tie_breaker |-> tie_breaker, ta |-> ICE_DEFAULT_TA_DURATION,
     keepalive_timeout |-> ICE_DEFAULT_KEEPALIVE_TIMEOUT,
     max_connectivity_checks |-> ICE_MAX_NB_CANDIDATE_PAIRS,
     local_ufrag |-> ufrag, local_pwd |-> pwd,
     remote_ufrag |-> <<>>, remote_pwd |-> <<>>,
     time |-> 0, loc_ip |-> loc_ip, loc_port |-> loc_port,
     local_candidates |-> <<>>, remote_candidates |-> <<>>,
     heap |-> <<>>, pairs |-> <<>>, triggered_checks_queue |-> <<>>,
     check_list |-> <<>>, valid_list |-> <<>>, componentIDs |-> <<>>,
     state |-> "Running", ta_time |-> 0, keepalive_time |-> 0,
     foundation_generator |-> 1,
     next_tid |-> 1, out |-> <<>>, success_cb_calls |-> 0, concluded |-> FALSE]

ice_session_set_remote_credentials(cl, ufrag, pwd) ==
    [cl EXCEPT !.remote_ufrag = ufrag, !.remote_pwd = pwd]

ice_session_set_max_connectivity_checks(cl, max_connectivity_checks) ==
    [cl EXCEPT !.max_connectivity_checks = max_connectivity_checks % 256]

ice_check_list_queue_triggered_check(cl, pair) ==
    IF ms_list_find_custom(cl.triggered_checks_queue, LAMBDA q : q = pair) # 0
    THEN cl
    ELSE [cl EXCEPT !.triggered_checks_queue = Append(@, pair)]

(***************************************************************************)
(* STUN packets.  A packet is the decoded StunMessage with the addresses   *)
(* it travels between; MESSAGE-INTEGRITY is the password the HMAC was      *)
(* keyed with.                                                             *)
(***************************************************************************)
NoAddress == [ip |-> "", port |-> 0]

StunMessage ==
    [type |-> "", tr_id |-> 0, src |-> NoAddress, dst |-> NoAddress,
     hasMessageIntegrity |-> FALSE, hasUsername |-> FALSE,
     hasFingerprint |-> FALSE, hasPriority |-> FALSE,
     hasIceControlling |-> FALSE, hasIceControlled |-> FALSE,
     hasUseCandidate |-> FALSE, hasXorMappedAddress |-> FALSE,
     hasErrorCode |-> FALSE,
     username |-> <<>>, integrity |-> <<>>, priority |-> 0,
     iceControlling |-> 0, iceControlled |-> 0,
     xorMappedAddress |-> NoAddress, errorClass |-> 0, errorNumber |-> 0]

sendMessage(cl, msg) == [cl EXCEPT !.out = Append(@, msg)]

\* The address of the socket a component sends from and receives on.
SocketAddress(cl, socket_type) ==
    [ip |-> cl.loc_ip,
     port |-> IF socket_type = "RTP" THEN cl.loc_port ELSE cl.loc_port + 1]

ice_get_recv_port_from_rtp_session(cl, evt) ==
    IF evt.socket_type = "RTP" THEN cl.loc_port
    ELSE IF evt.socket_type = "RTCP" THEN cl.loc_port + 1
    ELSE -1

\* Send a connectivity check for the pair, or retransmit it.  garbage is what
\* transmission_time holds when the pair is sent for the first time: the
\* field is read by the retransmission test and written only on a
\* retransmission.  A retransmission multiplies the RTO by backoff.
SendBindingRequest(cl, pair, garbage, backoff) ==
    LET p0 == cl.heap[pair]
        componentID == cl.local_candidates[p0.local].componentID
        retransmit == p0.state = "InProgress"
        p1 == IF retransmit
              THEN [p0 EXCEPT !.retransmissions = @ + 1, !.rto = backoff * @,
                              !.transmission_time = cl.time]
              ELSE p0
        msg == [StunMessage EXCEPT
                  !.type = "request",
                  !.tr_id = IF retransmit THEN p0.transactionID ELSE cl.next_tid,
                  !.src = SocketAddress(cl, IF componentID = 1 THEN "RTP" ELSE "RTCP"),
                  !.dst = cl.remote_candidates[p0.remote].taddr,
                  !.hasUsername = TRUE,
                  !.username = cl.remote_ufrag \o <<":">> \o cl.local_ufrag,
                  !.hasMessageIntegrity = TRUE,
                  !.integrity = cl.remote_pwd,
                  !.hasFingerprint = TRUE,
                  !.hasPriority = TRUE,
                  !.priority = (cl.local_candidates[p0.local].priority % 16777216)
                               + type_preference_values("prflx") * 16777216,
                  !.hasUseCandidate = (cl.role = "Controlling" /\ p0.is_nominated),
                  !.hasIceControlling = (cl.role = "Controlling"),
                  !.iceControlling = IF cl.role = "Controlling" THEN cl.tie_breaker ELSE 0,
                  !.hasIceControlled = (cl.role = "Controlled"),
                  !.iceControlled = IF cl.role = "Controlled" THEN cl.tie_breaker ELSE 0]
        p2 == [p1 EXCEPT !.transactionID = msg.tr_id]
        p3 == IF retransmit THEN p2
              ELSE [ice_pair_set_state(p2, "InProgress") EXCEPT
                        !.rto = ICE_DEFAULT_RTO_DURATION,
                        !.retransmissions = 0,
                        !.role = cl.role,
                        !.transmission_time =
                            IF @ = Uninitialized THEN garbage ELSE @,
                        !.first_sent = IF @ = <<>> THEN <<cl.time>> ELSE @]
    IN IF retransmit /\ p0.wait_transaction_timeout
       THEN ice_check_list_queue_triggered_check(
                [cl EXCEPT !.heap[pair] =
                    ice_pair_set_state([p0 EXCEPT !.wait_transaction_timeout = FALSE],
                                       "Waiting")],
                pair)
       ELSE IF retransmit /\ p0.retransmissions + 1 > ICE_MAX_RETRANSMISSIONS
       THEN [cl EXCEPT !.heap[pair] =
                ice_pair_set_state([p0 EXCEPT !.retransmissions = @ + 1], "Failed")]
       ELSE IF componentID \notin {1, 2}
       THEN [cl EXCEPT !.heap[pair] = p1]
       ELSE sendMessage([cl EXCEPT !.heap[pair] = p3,
                                   !.next_tid = IF retransmit THEN @ ELSE @ + 1],
                        msg)

\* ice_send_binding_request that leaves the RTO as it is at a retransmission.
send_binding_request_without_backoff(cl, pair, garbage) ==
    SendBindingRequest(cl, pair, garbage, 1)

\* pair->rto = pair->rto << 1 at a retransmission.
ice_send_binding_request(cl, pair, garbage) ==
    SendBindingRequest(cl, pair, garbage, 2)

ice_send_binding_response(cl, evt) ==
    IF evt.socket_type \notin {"RTP", "RTCP"} THEN cl
    ELSE sendMessage(cl,
            [StunMessage EXCEPT
                !.type = "success", !.tr_id = evt.tr_id,
                !.src = SocketAddress(cl, evt.socket_type), !.dst = evt.src,
                !.hasMessageIntegrity = TRUE, !.hasFingerprint = TRUE,
                !.hasUsername = TRUE, !.username = evt.username,
                !.hasXorMappedAddress = TRUE, !.xorMappedAddress = evt.src])

ice_send_error_response(cl, evt, err_class, err_num) ==
    IF evt.socket_type \notin {"RTP", "RTCP"} THEN cl
    ELSE sendMessage(cl,
            [StunMessage EXCEPT
                !.type = "error", !.tr_id = evt.tr_id,
                !.src = SocketAddress(cl, evt.socket_type), !.dst = evt.src,
                !.hasErrorCode = TRUE, !.errorClass = err_class,
                !.errorNumber = err_num, !.hasFingerprint = TRUE])

ice_send_indication(cl, pair) ==
    LET componentID == cl.local_candidates[cl.heap[pair].local].componentID
    IN IF componentID \notin {1, 2} THEN cl
       ELSE sendMessage(cl,
            [StunMessage EXCEPT
                !.type = "indication",
                !.src = SocketAddress(cl, IF componentID = 1 THEN "RTP" ELSE "RTCP"),
                !.dst = cl.remote_candidates[cl.heap[pair].remote].taddr,
                !.hasFingerprint = TRUE])

(***************************************************************************)
(* Handling of a received binding request.  evt is the received packet     *)
(* with socket_type, the socket it arrived on, and ipi_addr, the address   *)
(* it was sent to.  The checks return rc = -1 after sending their error    *)
(* response, rc = 0 otherwise.                                             *)
(***************************************************************************)
ice_find_candidate_from_transport_address(list, taddr) ==
    ms_list_find_custom(list, LAMBDA c : ~ice_compare_transport_addresses(c.taddr, taddr))

ice_check_received_binding_request_attributes(cl, evt) ==
    IF \/ ~evt.hasMessageIntegrity
       \/ ~evt.hasUsername
       \/ ~evt.hasFingerprint
       \/ ~evt.hasPriority
       \/ (~evt.hasIceControlling /\ ~evt.hasIceControlled)
    THEN [rc |-> -1, cl |-> ice_send_error_response(cl, evt, 4, 0)]
    ELSE [rc |-> 0, cl |-> cl]

\* The HMAC of the packet matches the one computed with the local password.
ice_check_received_binding_request_integrity(cl, evt) ==
    IF evt.integrity # cl.local_pwd
    THEN [rc |-> -1, cl |-> ice_send_error_response(cl, evt, 4, 1)]
    ELSE [rc |-> 0, cl |-> cl]

\* strncmp(s1, s2, n) = 0 for s1 without a NUL among its first n characters.
StrncmpEqual(s1, s2, n) ==
    /\ n <= Len(s2)
    /\ \A k \in 1..n : s1[k] = s2[k]

ice_check_received_binding_request_username(cl, evt) ==
    LET colon == ms_list_find_custom(evt.username, LAMBDA ch : ch = ":")
    IN IF colon = 0 \/ ~StrncmpEqual(evt.username, cl.local_ufrag, colon - 1)
       THEN [rc |-> -1, cl |-> ice_send_error_response(cl, evt, 4, 1)]
       ELSE [rc |-> 0, cl |-> cl]

\* ice_check_received_binding_request_role_conflict that takes the other
\* role before it replies 487.
role_conflict_switches_before_487(cl, evt) ==
    IF cl.role = "Controlling" /\ evt.hasIceControlling
    THEN IF cl.tie_breaker >= evt.iceControlling
         THEN [rc |-> -1, cl |-> ice_send_error_response(
                                    ice_session_set_role(cl, "Controlled"), evt, 4, 87)]
         ELSE [rc |-> 0, cl |-> ice_session_set_role(cl, "Controlled")]
    ELSE IF cl.role = "Controlled" /\ evt.hasIceControlled
    THEN IF cl.tie_breaker >= evt.iceControlled
         THEN [rc |-> 0, cl |-> ice_session_set_role(cl, "Controlling")]
         ELSE [rc |-> -1, cl |-> ice_send_error_response(
                                    ice_session_set_role(cl, "Controlling"), evt, 4, 87)]
    ELSE [rc |-> 0, cl |-> cl]

\* ice_check_received_binding_request_role_conflict with the two outcomes of
\* its controlled case exchanged: the agent with the lesser tie-breaker
\* switches.
role_conflict_lesser_switches(cl, evt) ==
    IF cl.role = "Controlling" /\ evt.hasIceControlling
    THEN IF cl.tie_breaker >= evt.iceControlling
         THEN [rc |-> -1, cl |-> ice_send_error_response(cl, evt, 4, 87)]
         ELSE [rc |-> 0, cl |-> ice_session_set_role(cl, "Controlled")]
    ELSE IF cl.role = "Controlled" /\ evt.hasIceControlled
    THEN IF cl.tie_breaker >= evt.iceControlled
         THEN [rc |-> -1, cl |-> ice_send_error_response(cl, evt, 4, 87)]
         ELSE [rc |-> 0, cl |-> ice_session_set_role(cl, "Controlling")]
    ELSE [rc |-> 0, cl |-> cl]

ice_check_received_binding_request_role_conflict(cl, evt) ==
    IF cl.role = "Controlling" /\ evt.hasIceControlling
    THEN IF cl.tie_breaker >= evt.iceControlling
         THEN [rc |-> -1, cl |-> ice_send_error_response(cl, evt, 4, 87)]
         ELSE [rc |-> 0, cl |-> ice_session_set_role(cl, "Controlled")]
    ELSE IF cl.role = "Controlled" /\ evt.hasIceControlled
    THEN IF cl.tie_breaker >= evt.iceControlled
         THEN [rc |-> 0, cl |-> ice_session_set_role(cl, "Controlling")]
         ELSE [rc |-> -1, cl |-> ice_send_error_response(cl, evt, 4, 87)]
    ELSE [rc |-> 0, cl |-> cl]

\* A foundation no remote candidate has: the random draw is repeated until
\* it collides with none, so that only its being new matters.
RECURSIVE ArbitraryFoundationFrom(_, _)
ArbitraryFoundationFrom(list, k) ==
    IF ms_list_find_custom(list, LAMBDA c : c.foundation = ToString(k)) = 0
    THEN ToString(k)
    ELSE ArbitraryFoundationFrom(list, k + 1)

ice_generate_arbitrary_foundation(list) == ArbitraryFoundationFrom(list, 9001)

\* The remote candidate pointer returned (0 for NULL) is
\* LearnedCandidate(cl, after).
ice_learn_peer_reflexive_candidate(cl, evt) ==
    IF evt.socket_type \notin {"RTP", "RTCP"} THEN cl
    ELSE IF ice_find_candidate_from_transport_address(cl.remote_candidates, evt.src) = 0
    THEN ice_add_remote_candidate(cl, "prflx", evt.src.ip, evt.src.port,
            IF evt.socket_type = "RTP" THEN 1 ELSE 2, evt.priority,
            ice_generate_arbitrary_foundation(cl.remote_candidates))
    ELSE cl

LearnedCandidate(before, after) ==
    IF Len(after.remote_candidates) > Len(before.remote_candidates)
    THEN Len(after.remote_candidates) ELSE 0

ice_find_pair_from_candidates(cl, local, remote) ==
    ms_list_find_custom(cl.check_list,
        LAMBDA p : cl.heap[p].local = local /\ cl.heap[p].remote = remote)

\* rc is the pair pointer returned, 0 for NULL.
ice_trigger_connectivity_check_on_binding_request(cl, evt, prflx_candidate) ==
    LET recvport == ice_get_recv_port_from_rtp_session(cl, evt)
        local == ice_find_candidate_from_transport_address(cl.local_candidates,
                    [ip |-> evt.ipi_addr, port |-> recvport])
        remote == IF prflx_candidate # 0 THEN prflx_candidate
                  ELSE ice_find_candidate_from_transport_address(cl.remote_candidates, evt.src)
        elem == ice_find_pair_from_candidates(cl, local, remote)
    IN IF recvport < 0 \/ local = 0 \/ remote = 0 THEN [rc |-> 0, cl |-> cl]
       ELSE IF elem = 0
       THEN LET added == AppendNewPair(cl, local, remote)
                pair == Len(added.heap)
                listed == [added EXCEPT
                    !.check_list = ms_list_insert_sorted(@, pair,
                        LAMBDA p1, p2 : ice_compare_pair_priorities(added, p1, p2)),
                    !.heap[pair] = ice_pair_set_state(@, "Waiting")]
            IN [rc |-> pair, cl |-> ice_check_list_queue_triggered_check(listed, pair)]
       ELSE LET pair == cl.check_list[elem]
            IN [rc |-> pair,
                cl |-> CASE cl.heap[pair].state \in {"Waiting", "Frozen", "Failed"} ->
                            ice_check_list_queue_triggered_check(
                                [cl EXCEPT !.heap[pair] = ice_pair_set_state(@, "Waiting")],
                                pair)
                         [] cl.heap[pair].state = "InProgress" ->
                            [cl EXCEPT !.heap[pair].wait_transaction_timeout = TRUE]
                         [] cl.heap[pair].state = "Succeeded" -> cl]

ice_update_nominated_flag_on_binding_request(cl, evt, pair) ==
    IF evt.hasUseCandidate /\ cl.role = "Controlled" /\ cl.heap[pair].state = "Succeeded"
    THEN [cl EXCEPT !.heap[pair].is_nominated = TRUE]
    ELSE cl

(***************************************************************************)
(* Conclusion of the ICE processing of the check list.                     *)
(***************************************************************************)
ComponentOf(cl, pair) == cl.local_candidates[cl.heap[pair].local].componentID

\* ice_perform_regular_nomination that does not queue the triggered check
\* that carries the nomination.
nominate_without_triggered_check(cl, valid_pair) ==
    IF ~cl.heap[valid_pair.valid].is_nominated
    THEN [cl EXCEPT !.heap[valid_pair.generated_from].is_nominated = TRUE]
    ELSE cl

ice_perform_regular_nomination(cl, valid_pair) ==
    IF ~cl.heap[valid_pair.valid].is_nominated
    THEN ice_check_list_queue_triggered_check(
            [cl EXCEPT !.heap[valid_pair.generated_from].is_nominated = TRUE],
            valid_pair.generated_from)
    ELSE cl

\* The loop over the list from position i on: after a removal it goes on
\* from the element before the removed one, and stops when the removed
\* element was the first or the last of the list.
RECURSIVE RemoveWaitingAndFrozenFrom(_, _, _, _)
RemoveWaitingAndFrozenFrom(cl, list, componentID, i) ==
    IF i > Len(list) THEN list
    ELSE IF /\ cl.heap[list[i]].state \in {"Waiting", "Frozen"}
            /\ ComponentOf(cl, list[i]) = componentID
    THEN IF i < Len(list) /\ i > 1
         THEN RemoveWaitingAndFrozenFrom(cl, ms_list_remove_link(list, i), componentID, i)
         ELSE ms_list_remove_link(list, i)
    ELSE RemoveWaitingAndFrozenFrom(cl, list, componentID, i + 1)

ice_remove_waiting_and_frozen_pairs_from_list(cl, list, componentID) ==
    RemoveWaitingAndFrozenFrom(cl, list, componentID, 1)

ice_stop_retransmission_for_in_progress_pair(cl, pair, componentID) ==
    IF cl.heap[pair].state = "InProgress" /\ ComponentOf(cl, pair) = componentID
    THEN [cl EXCEPT !.heap[pair].retransmissions = ICE_MAX_RETRANSMISSIONS]
    ELSE cl

ice_conclude_waiting_frozen_and_inprogress_pairs(cl, valid_pair) ==
    IF cl.heap[valid_pair.valid].is_nominated
    THEN LET componentID == ComponentOf(cl, valid_pair.valid)
             removed == [cl EXCEPT
                !.check_list =
                    ice_remove_waiting_and_frozen_pairs_from_list(cl, @, componentID),
                !.triggered_checks_queue =
                    ice_remove_waiting_and_frozen_pairs_from_list(cl, @, componentID)]
         IN ms_list_for_each2(removed.check_list,
                LAMBDA c, p : ice_stop_retransmission_for_in_progress_pair(c, p, componentID),
                removed)
    ELSE cl

\* ice_find_nominated_valid_pair_from_componentID without its test of the
\* nominated flag.
find_valid_pair_from_componentID(cl, componentID) ==
    ms_list_find_custom(cl.valid_list,
        LAMBDA vp : ComponentOf(cl, vp.valid) = componentID)

\* ice_find_nominated_valid_pair_from_componentID that counts a nominated
\* valid pair only while it is Succeeded.
find_nominated_succeeded_valid_pair_from_componentID(cl, componentID) ==
    ms_list_find_custom(cl.valid_list,
        LAMBDA vp : /\ cl.heap[vp.valid].is_nominated
                    /\ cl.heap[vp.valid].state = "Succeeded"
                    /\ ComponentOf(cl, vp.valid) = componentID)

ice_find_nominated_valid_pair_from_componentID(cl, componentID) ==
    ms_list_find_custom(cl.valid_list,
        LAMBDA vp : cl.heap[vp.valid].is_nominated /\ ComponentOf(cl, vp.valid) = componentID)

\* cb.result after the loop over the component IDs.
ice_find_nominated_valid_pair_for_componentID(cl) ==
    \A k \in 1..Len(cl.componentIDs) :
        ice_find_nominated_valid_pair_from_componentID(cl, cl.componentIDs[k]) # 0

\* ice_check_all_pairs_in_failed_or_succeeded_state that takes a pair in
\* progress for one whose check has ended.
check_all_pairs_in_failed_succeeded_or_in_progress_state(cl) ==
    \/ Len(cl.check_list) = 0
    \/ ms_list_find_custom(cl.check_list,
            LAMBDA p : cl.heap[p].state \notin {"Failed", "Succeeded", "InProgress"}) = 0

\* cb.result after the loop over the check list.
ice_check_all_pairs_in_failed_or_succeeded_state(cl) ==
    \/ Len(cl.check_list) = 0
    \/ ms_list_find_custom(cl.check_list,
            LAMBDA p : cl.heap[p].state \notin {"Failed", "Succeeded"}) = 0

\* ice_conclude_processing without its test of cl->state before the success
\* callback is invoked.
conclude_processing_without_state_test(cl) ==
    LET nominated == IF cl.role = "Controlling"
                     THEN ms_list_for_each2(cl.valid_list, ice_perform_regular_nomination, cl)
                     ELSE cl
        concluded == [ms_list_for_each2(nominated.valid_list,
                        ice_conclude_waiting_frozen_and_inprogress_pairs, nominated)
                      EXCEPT !.concluded = TRUE]
    IN IF ice_find_nominated_valid_pair_for_componentID(concluded)
       THEN [concluded EXCEPT !.state = "Completed",
                              !.success_cb_calls = @ + 1,
                              !.keepalive_time = concluded.time]
       ELSE IF ice_check_all_pairs_in_failed_or_succeeded_state(concluded)
            THEN [concluded EXCEPT !.state = "Failed"]
            ELSE concluded

ice_conclude_processing(cl) ==
    LET nominated == IF cl.role = "Controlling"
                     THEN ms_list_for_each2(cl.valid_list, ice_perform_regular_nomination, cl)
                     ELSE cl
        concluded == [ms_list_for_each2(nominated.valid_list,
                        ice_conclude_waiting_frozen_and_inprogress_pairs, nominated)
                      EXCEPT !.concluded = TRUE]
    IN IF ice_find_nominated_valid_pair_for_componentID(concluded)
       THEN IF concluded.state # "Completed"
            THEN [concluded EXCEPT !.state = "Completed",
                                   !.success_cb_calls = @ + 1,
                                   !.keepalive_time = concluded.time]
            ELSE concluded
       ELSE IF ice_check_all_pairs_in_failed_or_succeeded_state(concluded)
            THEN [concluded EXCEPT !.state = "Failed"]
            ELSE concluded

(***************************************************************************)
(* Handling of a received binding request (end), binding response and      *)
(* error response.                                                         *)
(***************************************************************************)
ice_handle_received_binding_request(cl, evt) ==
    LET a == ice_check_received_binding_request_attributes(cl, evt)
        i == ice_check_received_binding_request_integrity(a.cl, evt)
        u == ice_check_received_binding_request_username(i.cl, evt)
        r == ice_check_received_binding_request_role_conflict(u.cl, evt)
        learned == ice_learn_peer_reflexive_candidate(r.cl, evt)
        t == ice_trigger_connectivity_check_on_binding_request(learned, evt,
                LearnedCandidate(r.cl, learned))
        flagged == IF t.rc # 0
                   THEN ice_update_nominated_flag_on_binding_request(t.cl, evt, t.rc)
                   ELSE t.cl
    IN IF a.rc < 0 THEN a.cl
       ELSE IF i.rc < 0 THEN i.cl
       ELSE IF u.rc < 0 THEN u.cl
       ELSE IF r.rc < 0 THEN r.cl
       ELSE ice_conclude_processing(ice_send_binding_response(flagged, evt))

\* memcmp of the two transaction IDs: the first pair of the check list with
\* the transaction ID of the message.
ice_find_pair_from_transactionID(cl, tr_id) ==
    ms_list_find_custom(cl.check_list, LAMBDA p : cl.heap[p].transactionID = tr_id)

\* ice_check_received_binding_response_addresses that compares the IP
\* addresses and not the ports.
response_addresses_without_port_test(cl, evt, pair) ==
    LET recvport == ice_get_recv_port_from_rtp_session(cl, evt)
        remote == cl.remote_candidates[cl.heap[pair].remote].taddr
        local == cl.local_candidates[cl.heap[pair].local].taddr
    IN IF recvport < 0 THEN [rc |-> -1, cl |-> cl]
       ELSE IF evt.src.ip # remote.ip \/ evt.ipi_addr # local.ip
       THEN [rc |-> -1, cl |-> [cl EXCEPT !.heap[pair] = ice_pair_set_state(@, "Failed")]]
       ELSE [rc |-> 0, cl |-> cl]

ice_check_received_binding_response_addresses(cl, evt, pair) ==
    LET recvport == ice_get_recv_port_from_rtp_session(cl, evt)
        remote == cl.remote_candidates[cl.heap[pair].remote].taddr
        local == cl.local_candidates[cl.heap[pair].local].taddr
    IN IF recvport < 0 THEN [rc |-> -1, cl |-> cl]
       ELSE IF \/ evt.src.ip # remote.ip
               \/ evt.src.port # remote.port
               \/ evt.ipi_addr # local.ip
               \/ recvport # local.port
       THEN [rc |-> -1, cl |-> [cl EXCEPT !.heap[pair] = ice_pair_set_state(@, "Failed")]]
       ELSE [rc |-> 0, cl |-> cl]

ice_check_received_binding_response_attributes(evt) ==
    IF ~evt.hasUsername \/ ~evt.hasFingerprint \/ ~evt.hasXorMappedAddress
    THEN -1 ELSE 0

\* The local candidate pointer returned (0 for NULL) is
\* DiscoveredCandidate(cl, after).
ice_discover_peer_reflexive_candidate(cl, pair, evt) ==
    IF ice_find_candidate_from_transport_address(cl.local_candidates,
            evt.xorMappedAddress) = 0
    THEN LET local == cl.heap[pair].local
             added == ice_add_local_candidate(cl, "prflx", evt.xorMappedAddress.ip,
                        evt.xorMappedAddress.port,
                        cl.local_candidates[local].componentID, local)
         IN IF Len(added.local_candidates) > Len(cl.local_candidates)
            THEN ice_compute_candidate_foundation(added, Len(added.local_candidates))
            ELSE added
    ELSE cl

DiscoveredCandidate(before, after) ==
    IF Len(after.local_candidates) > Len(before.local_candidates)
    THEN Len(after.local_candidates) ELSE 0

ice_find_valid_pair(cl, valid_pair) ==
    ms_list_find_custom(cl.valid_list,
        LAMBDA vp : vp.valid = valid_pair.valid
                    /\ vp.generated_from = valid_pair.generated_from)

ice_compare_valid_pair_priorities(cl, vp1, vp2) ==
    ice_compare_pair_priorities(cl, vp1.valid, vp2.valid)

\* rc is the valid pair pointer returned, 0 for NULL.
ice_construct_valid_pair(cl, evt, prflx_candidate, succeeded_pair) ==
    LET recvport == ice_get_recv_port_from_rtp_session(cl, evt)
        local == IF prflx_candidate # 0 THEN prflx_candidate
                 ELSE ice_find_candidate_from_transport_address(cl.local_candidates,
                         [ip |-> evt.ipi_addr, port |-> recvport])
        remote == cl.heap[succeeded_pair].remote
        elem == ice_find_pair_from_candidates(cl, local, remote)
        known == IF elem = 0 THEN AppendNewPair(cl, local, remote) ELSE cl
        pair == IF elem = 0 THEN Len(known.heap) ELSE cl.check_list[elem]
        valid_pair == [valid |-> pair, generated_from |-> succeeded_pair]
    IN IF prflx_candidate = 0 /\ (recvport < 0 \/ local = 0) THEN [rc |-> 0, cl |-> cl]
       ELSE IF ice_find_valid_pair(known, valid_pair) = 0
       THEN [rc |-> pair,
             cl |-> [known EXCEPT !.valid_list = ms_list_insert_sorted(@, valid_pair,
                        LAMBDA vp1, vp2 : ice_compare_valid_pair_priorities(known, vp1, vp2))]]
       ELSE [rc |-> pair, cl |-> known]

ice_compare_pair_foundations(cl, p1, p2) ==
    ~(/\ cl.local_candidates[cl.heap[p1].local].foundation
            = cl.local_candidates[cl.heap[p2].local].foundation
      /\ cl.remote_candidates[cl.heap[p1].remote].foundation
            = cl.remote_candidates[cl.heap[p2].remote].foundation)

\* ice_change_state_of_frozen_pairs_to_waiting that does not compare the
\* foundations.
unfreeze_whatever_the_foundation(cl, pair, succeeded_pair) ==
    IF pair # succeeded_pair /\ cl.heap[pair].state = "Frozen"
    THEN [cl EXCEPT !.heap[pair] = ice_pair_set_state(@, "Waiting")]
    ELSE cl

ice_change_state_of_frozen_pairs_to_waiting(cl, pair, succeeded_pair) ==
    IF /\ pair # succeeded_pair
       /\ cl.heap[pair].state = "Frozen"
       /\ ~ice_compare_pair_foundations(cl, pair, succeeded_pair)
    THEN [cl EXCEPT !.heap[pair] = ice_pair_set_state(@, "Waiting")]
    ELSE cl

ice_update_pair_states_on_binding_response(cl, pair) ==
    ms_list_for_each2(cl.check_list,
        LAMBDA c, p : ice_change_state_of_frozen_pairs_to_waiting(c, p, pair),
        [cl EXCEPT !.heap[pair] = ice_pair_set_state(@, "Succeeded")])

ice_update_nominated_flag_on_binding_response(cl, valid_pair, succeeded_pair, succeeded_pair_previous_state) ==
    IF \/ cl.role = "Controlling" /\ cl.heap[succeeded_pair].is_nominated
       \/ cl.role = "Controlled" /\ succeeded_pair_previous_state = "InProgress"
    THEN [cl EXCEPT !.heap[valid_pair].is_nominated = TRUE]
    ELSE cl

ice_handle_received_binding_response(cl, evt) ==
    LET elem == ice_find_pair_from_transactionID(cl, evt.tr_id)
        succeeded_pair == cl.check_list[elem]
        a == ice_check_received_binding_response_addresses(cl, evt, succeeded_pair)
        succeeded_pair_previous_state == cl.heap[succeeded_pair].state
        discovered == ice_discover_peer_reflexive_candidate(cl, succeeded_pair, evt)
        v == ice_construct_valid_pair(discovered, evt,
                DiscoveredCandidate(cl, discovered), succeeded_pair)
        updated == ice_update_pair_states_on_binding_response(v.cl, succeeded_pair)
    IN IF elem = 0 THEN cl
       ELSE IF a.rc < 0 THEN a.cl
       ELSE IF ice_check_received_binding_response_attributes(evt) < 0 THEN cl
       ELSE ice_conclude_processing(
                ice_update_nominated_flag_on_binding_response(updated, v.rc,
                    succeeded_pair, succeeded_pair_previous_state))

\* ice_handle_received_error_response that treats a 487 error as any other
\* error: the pair is Failed and the role is kept.
error_response_without_role_switch(cl, evt) ==
    LET elem == ice_find_pair_from_transactionID(cl, evt.tr_id)
    IN IF elem = 0 THEN cl
       ELSE ice_conclude_processing(
                [cl EXCEPT !.heap[cl.check_list[elem]] = ice_pair_set_state(@, "Failed")])

ice_handle_received_error_response(cl, evt) ==
    LET elem == ice_find_pair_from_transactionID(cl, evt.tr_id)
        pair == cl.check_list[elem]
        failed == [cl EXCEPT !.heap[pair] = ice_pair_set_state(@, "Failed")]
        switched == ice_session_set_role(failed,
                        IF failed.heap[pair].role = "Controlling"
                        THEN "Controlled" ELSE "Controlling")
    IN IF elem = 0 THEN cl
       ELSE IF evt.hasErrorCode /\ evt.errorClass = 4 /\ evt.errorNumber = 87
       THEN ice_conclude_processing(
                ice_check_list_queue_triggered_check(
                    [switched EXCEPT !.heap[pair] = ice_pair_set_state(@, "Waiting")],
                    pair))
       ELSE ice_conclude_processing(failed)

\* The received packet as the event the RTP session hands over: with the
\* socket it arrived on and the address it was sent to.
OrtpEvent(cl, packet) ==
    packet @@ [socket_type |-> IF packet.dst.port = cl.loc_port THEN "RTP" ELSE "RTCP",
               ipi_addr |-> packet.dst.ip]

ice_handle_stun_packet(cl, evt) ==
    CASE evt.type = "request" -> ice_handle_received_binding_request(cl, evt)
      [] evt.type = "success" -> ice_handle_received_binding_response(cl, evt)
      [] evt.type = "error" -> ice_handle_received_error_response(cl, evt)
      [] OTHER -> cl

(***************************************************************************)
(* The scheduler: ice_check_list_process, called at every tick.            *)
(***************************************************************************)
\* 2^64 + now - then for then > now: above every RTO and every timeout.
WrapAround == 2147483647

\* The unsigned difference now - then.
TimeSince(now, then) == IF then <= now THEN now - then ELSE WrapAround

ice_check_list_pop_triggered_check(cl) ==
    IF Len(cl.triggered_checks_queue) = 0 THEN cl
    ELSE [cl EXCEPT !.triggered_checks_queue = ms_list_remove_link(@, 1)]

ice_send_keepalive_packet_for_componentID(cl, componentID) ==
    LET elem == ice_find_nominated_valid_pair_from_componentID(cl, componentID)
    IN IF elem # 0 THEN ice_send_indication(cl, cl.valid_list[elem].valid) ELSE cl

ice_send_keepalive_packets(cl) ==
    ms_list_for_each2(cl.componentIDs, ice_send_keepalive_packet_for_componentID, cl)

ice_handle_connectivity_check_retransmission(cl, pair, garbage) ==
    IF /\ cl.heap[pair].state = "InProgress"
       /\ TimeSince(cl.time, cl.heap[pair].transmission_time) >= cl.heap[pair].rto
    THEN ice_send_binding_request(cl, pair, garbage)
    ELSE cl

ice_find_pair_from_state(cl, state) ==
    ms_list_find_custom(cl.check_list, LAMBDA p : cl.heap[p].state = state)

\* ice_check_retransmissions_pending that counts every pair that is not
\* Succeeded as pending.
retransmissions_pending_unless_succeeded(cl) ==
    \E k \in 1..Len(cl.check_list) : cl.heap[cl.check_list[k]].state # "Succeeded"

\* retransmissions_pending after the loop over the check list.
ice_check_retransmissions_pending(cl) ==
    \E k \in 1..Len(cl.check_list) :
        /\ cl.heap[cl.check_list[k]].state = "InProgress"
        /\ cl.heap[cl.check_list[k]].retransmissions <= ICE_MAX_RETRANSMISSIONS

\* case ICL_Running without the test of the time since the last check.
process_running_unpaced(cl, garbage) ==
    LET retransmitted == ms_list_for_each2(cl.check_list,
            LAMBDA c, p : ice_handle_connectivity_check_retransmission(c, p, garbage), cl)
        paced == [retransmitted EXCEPT !.ta_time = cl.time]
        waiting == ice_find_pair_from_state(paced, "Waiting")
        frozen == ice_find_pair_from_state(paced, "Frozen")
    IN IF Len(paced.triggered_checks_queue) # 0
       THEN ice_send_binding_request(ice_check_list_pop_triggered_check(paced),
                paced.triggered_checks_queue[1], garbage)
       ELSE IF cl.state = "Running" /\ waiting # 0
       THEN ice_send_binding_request(paced, paced.check_list[waiting], garbage)
       ELSE IF cl.state = "Running" /\ frozen # 0
       THEN ice_send_binding_request(paced, paced.check_list[frozen], garbage)
       ELSE IF ~ice_check_retransmissions_pending(paced)
       THEN ice_conclude_processing(paced)
       ELSE paced

\* case ICL_Running of ice_check_list_process, which case ICL_Completed
\* falls into.
ProcessRunning(cl, garbage) ==
    LET retransmitted == ms_list_for_each2(cl.check_list,
            LAMBDA c, p : ice_handle_connectivity_check_retransmission(c, p, garbage), cl)
        paced == [retransmitted EXCEPT !.ta_time = cl.time]
        waiting == ice_find_pair_from_state(paced, "Waiting")
        frozen == ice_find_pair_from_state(paced, "Frozen")
    IN IF TimeSince(cl.time, cl.ta_time) < cl.ta THEN retransmitted
       ELSE IF Len(paced.triggered_checks_queue) # 0
       THEN ice_send_binding_request(ice_check_list_pop_triggered_check(paced),
                paced.triggered_checks_queue[1], garbage)
       ELSE IF cl.state = "Running" /\ waiting # 0
       THEN ice_send_binding_request(paced, paced.check_list[waiting], garbage)
       ELSE IF cl.state = "Running" /\ frozen # 0
       THEN ice_send_binding_request(paced, paced.check_list[frozen], garbage)
       ELSE IF ~ice_check_retransmissions_pending(paced)
       THEN ice_conclude_processing(paced)
       ELSE paced

\* ice_check_list_process without the reset of keepalive_time after the
\* keep-alive packets are sent.
check_list_process_without_keepalive_reset(cl, garbage) ==
    IF cl.session_state \in {"Stopped", "Failed"} THEN cl
    ELSE CASE cl.state = "Completed" ->
                IF TimeSince(cl.time, cl.keepalive_time) >= cl.keepalive_timeout * 1000
                THEN ProcessRunning(
                        ice_send_keepalive_packets(cl),
                        garbage)
                ELSE ProcessRunning(cl, garbage)
           [] cl.state = "Running" -> ProcessRunning(cl, garbage)
           [] cl.state = "Failed" -> cl

ice_check_list_process(cl, garbage) ==
    IF cl.session_state \in {"Stopped", "Failed"} THEN cl
    ELSE CASE cl.state = "Completed" ->
                IF TimeSince(cl.time, cl.keepalive_time) >= cl.keepalive_timeout * 1000
                THEN ProcessRunning(
                        [ice_send_keepalive_packets(cl) EXCEPT !.keepalive_time = cl.time],
                        garbage)
                ELSE ProcessRunning(cl, garbage)
           [] cl.state = "Running" -> ProcessRunning(cl, garbage)
           [] cl.state = "Failed" -> cl

(***************************************************************************)
(* The application's set-up of an agent: its candidates are gathered, the  *)
(* remote candidates and credentials are taken from the peer's offer, and  *)
(* the candidates are paired.  A candidate is given as                     *)
(* <<type, ip, port, componentID>>.                                        *)
(***************************************************************************)
AddLocal(cl, c) == ice_add_local_candidate(cl, c[1], c[2], c[3], c[4], 0)

\* Remote candidates come with the foundation and priority of the offer.
AddRemote(cl, c) == ice_add_remote_candidate(cl, c[1], c[2], c[3], c[4], 0, c[5])

SetUp(role, tie_breaker, ufrag, pwd, remote_ufrag, remote_pwd, loc_ip, loc_port, locals, remotes) ==
    LET session == ice_session_set_role(
                        ice_session_init(tie_breaker, ufrag, pwd, loc_ip, loc_port), role)
        gathered == ice_check_list_compute_candidates_foundations(
                        ms_list_for_each2(locals, AddLocal, session))
        offered == ice_session_set_remote_credentials(
                        ms_list_for_each2(remotes, AddRemote, gathered),
                        remote_ufrag, remote_pwd)
    IN ice_session_pair_candidates(offered)

(***************************************************************************)
(* The scenario: agent A at 10.0.0.1 (RTP 5000, RTCP 5001), its peer B at  *)
(* 10.0.0.2 (RTP 6000, RTCP 6001), and a NAT the peer may be seen behind.  *)
(* The tie-breakers are 10 for A and 20 for B.                             *)
(***************************************************************************)
RtpA == [ip |-> "10.0.0.1", port |-> 5000]
RtcpA == [ip |-> "10.0.0.1", port |-> 5001]
RtpB == [ip |-> "10.0.0.2", port |-> 6000]
RtcpB == [ip |-> "10.0.0.2", port |-> 6001]
NatB == [ip |-> "203.0.113.5", port |-> 40000]
NatA == [ip |-> "203.0.113.5", port |-> 40001]

UfragA == <<"a", "A">>
PwdA == <<"p", "w", "A">>
UfragB == <<"b", "B">>
PwdB == <<"p", "w", "B">>

Host(taddr, componentID) == <<"host", taddr.ip, taddr.port, componentID, "1">>

HostsA == <<Host(RtpA, 1), Host(RtcpA, 2)>>
HostsB == <<Host(RtpB, 1), Host(RtcpB, 2)>>

AgentA(role) ==
    SetUp(role, 10, UfragA, PwdA, UfragB, PwdB, RtpA.ip, RtpA.port, HostsA, HostsB)

AgentB(role) ==
    SetUp(role, 20, UfragB, PwdB, UfragA, PwdA, RtpB.ip, RtpB.port, HostsB, HostsA)

\* What transmission_time may hold when a pair is sent for the first time:
\* a time long past or the present time.
GarbageTimes(now) == {0, now}

(***************************************************************************)
(* The steps of an agent.                                                  *)
(***************************************************************************)
\* The agent of the specifications with one agent.
LoneAgent == ag["A"]

\* The ticker advances by dt and runs ice_check_list_process.
TickOf(cl, dt, garbage) ==
    ice_check_list_process(
        [cl EXCEPT !.time = @ + dt, !.out = <<>>, !.concluded = FALSE], garbage)

\* The RTP session hands a received STUN packet to ice_handle_stun_packet.
ReceiveOf(cl, packet) ==
    ice_handle_stun_packet([cl EXCEPT !.out = <<>>, !.concluded = FALSE],
                           OrtpEvent(cl, packet))

(***************************************************************************)
(* Specification Spec: agent A alone, in either role, with an environment  *)
(* that sends it any STUN packet of its peer at any time.                  *)
(***************************************************************************)
\* A binding request to A with the peer's credentials; tie_breaker is that
\* of the ICE-CONTROLLING attribute if controlling, else of ICE-CONTROLLED.
RequestToA(src, dst, use, controlling, tie_breaker) ==
    [StunMessage EXCEPT
        !.type = "request", !.tr_id = 99, !.src = src, !.dst = dst,
        !.hasMessageIntegrity = TRUE, !.integrity = PwdA,
        !.hasUsername = TRUE, !.username = UfragA \o <<":">> \o UfragB,
        !.hasFingerprint = TRUE,
        !.hasPriority = TRUE, !.priority = 110 * 16777216 + 65535 * 256 + 255,
        !.hasUseCandidate = use,
        !.hasIceControlling = controlling,
        !.iceControlling = IF controlling THEN tie_breaker ELSE 0,
        !.hasIceControlled = ~controlling,
        !.iceControlled = IF controlling THEN 0 ELSE tie_breaker]

EnvRequests ==
    {RequestToA(src, dst, use, controlling, 20) :
        src \in {RtpB, RtcpB, NatB}, dst \in {RtpA, RtcpA},
        use \in BOOLEAN, controlling \in BOOLEAN}

\* Requests that fail one of the checks: an attribute is missing, the
\* integrity is keyed with another password, the username is not
\* "<local ufrag>:<remote ufrag>".
EnvBadRequests ==
    LET ok == RequestToA(RtpB, RtpA, FALSE, TRUE, 20)
    IN {[ok EXCEPT !.hasPriority = FALSE],
        [ok EXCEPT !.integrity = PwdB],
        [ok EXCEPT !.username = UfragB \o <<":">> \o UfragA],
        [ok EXCEPT !.username = <<":">> \o UfragB],
        [ok EXCEPT !.username = UfragA \o UfragB]}

\* A success response to A.
ResponseToA(tid, src, dst, mapped) ==
    [StunMessage EXCEPT
        !.type = "success", !.tr_id = tid, !.src = src, !.dst = dst,
        !.hasMessageIntegrity = TRUE, !.integrity = PwdB,
        !.hasUsername = TRUE, !.username = UfragB \o <<":">> \o UfragA,
        !.hasFingerprint = TRUE,
        !.hasXorMappedAddress = TRUE, !.xorMappedAddress = mapped]

\* An error response to A.
ErrorToA(tid, src, dst, class, number) ==
    [StunMessage EXCEPT
        !.type = "error", !.tr_id = tid, !.src = src, !.dst = dst,
        !.hasFingerprint = TRUE, !.hasErrorCode = TRUE,
        !.errorClass = class, !.errorNumber = number]

\* Success responses with a transaction ID the agent has used so far: from
\* either address of the peer to either socket, the mapped address being the
\* socket's or one behind a NAT; and one that lacks XOR-MAPPED-ADDRESS.
EnvResponses(cl) ==
    {ResponseToA(tid, src, dst, IF nat THEN NatA ELSE dst) :
        tid \in 1..(cl.next_tid - 1), src \in {RtpB, RtcpB}, dst \in {RtpA, RtcpA},
        nat \in BOOLEAN}
    \cup
    {[ResponseToA(tid, RtpB, RtpA, RtpA) EXCEPT !.hasXorMappedAddress = FALSE] :
        tid \in 1..(cl.next_tid - 1)}

\* Error responses 400 and 487 with a transaction ID the agent has used.
EnvErrors(cl) ==
    {ErrorToA(tid, RtpB, RtpA, 4, number) :
        tid \in 1..(cl.next_tid - 1), number \in {0, 87}}

\* Responses with the all-zero transaction ID, which no request carries.
EnvZeroResponses ==
    {ResponseToA(0, src, dst, dst) : src \in {RtpB, RtcpB}, dst \in {RtpA, RtcpA}}
    \cup {ErrorToA(0, RtpB, RtpA, 4, number) : number \in {0, 87}}

Init ==
    /\ \E role \in {"Controlling", "Controlled"} : ag = [a \in {"A"} |-> AgentA(role)]
    /\ net = {}
    /\ budget = MaxPackets

\* The time (ms) between two ticks.
TickIntervals == {50}

\* What a tick of agent a may leave: the ticker period and the uninitialised
\* transmission time of a pair sent for the first time are chosen here.
TickResults(a) ==
    UNION {{TickOf(ag[a], dt, garbage) : garbage \in GarbageTimes(ag[a].time + dt)} :
                dt \in TickIntervals}

Tick ==
    \E after \in TickResults("A") :
        /\ after.time <= MaxTime
        /\ after.next_tid <= MaxTid + 1
        /\ ag' = [ag EXCEPT !["A"] = after]
        /\ UNCHANGED <<net, budget>>

Receive(packet) ==
    /\ budget > 0
    /\ ag' = [ag EXCEPT !["A"] = ReceiveOf(ag["A"], packet)]
    /\ budget' = budget - 1
    /\ UNCHANGED net

ReceiveRequest == \E packet \in EnvRequests \cup EnvBadRequests : Receive(packet)

ReceiveResponse == \E packet \in EnvResponses(ag["A"]) : Receive(packet)

ReceiveError == \E packet \in EnvErrors(ag["A"]) : Receive(packet)

Next == Tick \/ ReceiveRequest \/ ReceiveResponse \/ ReceiveError

Spec == Init /\ [][Next]_vars

(***************************************************************************)
(* Specification ZeroSpec: as Spec, with an environment that also sends    *)
(* responses with the all-zero transaction ID.                             *)
(***************************************************************************)
ReceiveZeroResponse == \E packet \in EnvZeroResponses : Receive(packet)

\* As Init, the environment sending fewer packets.
ZeroInit ==
    /\ \E role \in {"Controlling", "Controlled"} : ag = [a \in {"A"} |-> AgentA(role)]
    /\ net = {}
    /\ budget = ZeroMaxPackets

ZeroNext == Next \/ ReceiveZeroResponse

ZeroSpec == ZeroInit /\ [][ZeroNext]_vars

(***************************************************************************)
(* Properties of the lone agent.                                           *)
(***************************************************************************)

\* Every pair the lists of the check list point to.
PairsOf(cl) ==
    {cl.pairs[k] : k \in 1..Len(cl.pairs)}
    \cup {cl.check_list[k] : k \in 1..Len(cl.check_list)}
    \cup {cl.triggered_checks_queue[k] : k \in 1..Len(cl.triggered_checks_queue)}
    \cup {cl.valid_list[k].valid : k \in 1..Len(cl.valid_list)}
    \cup {cl.valid_list[k].generated_from : k \in 1..Len(cl.valid_list)}

\* The nominated pairs of the valid list for a component.
NominatedValidPairs(cl, componentID) ==
    {cl.valid_list[k].valid : k \in
        {j \in 1..Len(cl.valid_list) :
            /\ cl.heap[cl.valid_list[j].valid].is_nominated
            /\ ComponentOf(cl, cl.valid_list[j].valid) = componentID}}

\* C1: the success callback is invoked exactly once, when the check list
\* becomes Completed: the number of invocations is 1 while the check list is
\* Completed and 0 otherwise, and a Completed check list stays Completed, so
\* that the callback is never invoked a second time.
SuccessCallbackOnce ==
    /\ [](LoneAgent.success_cb_calls = IF LoneAgent.state = "Completed" THEN 1 ELSE 0)
    /\ [][LoneAgent.state = "Completed" => LoneAgent'.state = "Completed"]_vars

\* The check list is Completed and the scheduler has run since.
CompletedAndTicking ==
    /\ LoneAgent.state = "Completed"
    /\ LoneAgent.success_cb_calls = 1
    /\ LoneAgent.time > LoneAgent.keepalive_time

\* C2 as stated: when the check list is Completed, the valid list holds
\* exactly one nominated pair for every component ID of the check list.
ExactlyOneNominatedPairPerComponent ==
    LoneAgent.state = "Completed" =>
        \A k \in 1..Len(LoneAgent.componentIDs) :
            Cardinality(NominatedValidPairs(LoneAgent, LoneAgent.componentIDs[k])) = 1

\* C2 as amended: when the check list is Completed, the valid list holds at
\* least one nominated pair for every component ID of the check list.
NominatedPairForEveryComponent ==
    LoneAgent.state = "Completed" =>
        \A k \in 1..Len(LoneAgent.componentIDs) :
            Cardinality(NominatedValidPairs(LoneAgent, LoneAgent.componentIDs[k])) >= 1

\* The check list is Completed with two nominated valid pairs for one
\* component.
CompletedWithTwoNominatedPairs ==
    /\ LoneAgent.state = "Completed"
    /\ \E k \in 1..Len(LoneAgent.componentIDs) :
            Cardinality(NominatedValidPairs(LoneAgent, LoneAgent.componentIDs[k])) >= 2

\* C7: at a tick on a Running or Completed check list, an InProgress pair
\* whose RTO has elapsed (and that does not wait for its transaction timeout
\* to be checked again) is set to Failed if it was retransmitted 7 times,
\* and is otherwise retransmitted, its RTO doubling with each retransmission
\* and its retransmissions not exceeding 7: no pair stays InProgress beyond
\* its RTO.
InProgressPairsTimeOut ==
    [][\A p \in 1..Len(LoneAgent.heap) :
        (/\ LoneAgent'.time > LoneAgent.time
         /\ LoneAgent.state \in {"Running", "Completed"}
         /\ LoneAgent.heap[p].state = "InProgress"
         /\ ~LoneAgent.heap[p].wait_transaction_timeout
         /\ TimeSince(LoneAgent'.time, LoneAgent.heap[p].transmission_time)
                >= LoneAgent.heap[p].rto)
        => IF LoneAgent.heap[p].retransmissions >= ICE_MAX_RETRANSMISSIONS
           THEN LoneAgent'.heap[p].state = "Failed"
           ELSE \/ LoneAgent'.heap[p].state = "Failed"
                \/ /\ LoneAgent'.heap[p].state = "InProgress"
                   /\ LoneAgent'.heap[p].retransmissions <= ICE_MAX_RETRANSMISSIONS
                   /\ \/ /\ LoneAgent'.heap[p].retransmissions
                                = LoneAgent.heap[p].retransmissions + 1
                         /\ LoneAgent'.heap[p].rto = 2 * LoneAgent.heap[p].rto
                      \/ /\ LoneAgent'.heap[p].retransmissions
                                = LoneAgent.heap[p].retransmissions + 2
                         /\ LoneAgent'.heap[p].rto = 4 * LoneAgent.heap[p].rto]_vars

\* C9: every pair of the pair pool, the check list, the triggered checks
\* queue and the valid list joins a local and a remote candidate of the same
\* component ID.
PairsJoinSameComponent ==
    \A p \in PairsOf(LoneAgent) :
        LoneAgent.local_candidates[LoneAgent.heap[p].local].componentID
            = LoneAgent.remote_candidates[LoneAgent.heap[p].remote].componentID

\* C10: every Succeeded pair has a non-zero transaction ID, every Waiting
\* or Failed pair the all-zero one.
TransactionIDMatchesState ==
    \A p \in PairsOf(LoneAgent) :
        /\ LoneAgent.heap[p].state = "Succeeded" => LoneAgent.heap[p].transactionID # 0
        /\ LoneAgent.heap[p].state \in {"Waiting", "Failed"}
                => LoneAgent.heap[p].transactionID = 0

(***************************************************************************)
(* Specification RoleSpec: agent A alone, in either role, receives valid   *)
(* binding requests that claim either role with a tie-breaker below, equal *)
(* to or above its own.  A request is in flight before it is handled.      *)
(***************************************************************************)
RoleRequests ==
    {RequestToA(src, RtpA, use, controlling, tie_breaker) :
        src \in {RtpB, NatB}, use \in BOOLEAN, controlling \in BOOLEAN,
        tie_breaker \in {5, 10, 20}}

RoleArrive ==
    /\ budget > 0
    /\ net = {}
    /\ \E packet \in RoleRequests : net' = {packet}
    /\ budget' = budget - 1
    /\ UNCHANGED ag

RoleDeliver ==
    \E packet \in net :
        /\ ag' = [ag EXCEPT !["A"] = ReceiveOf(ag["A"], packet)]
        /\ net' = net \ {packet}
        /\ UNCHANGED budget

RoleNext == Tick \/ RoleArrive \/ RoleDeliver

RoleSpec == Init /\ [][RoleNext]_vars

\* The request reveals a role conflict to the agent.
RoleConflict(cl, packet) ==
    \/ cl.role = "Controlling" /\ packet.hasIceControlling
    \/ cl.role = "Controlled" /\ packet.hasIceControlled

\* The tie-breaker of the role attribute that conflicts.
ConflictingTieBreaker(cl, packet) ==
    IF cl.role = "Controlling" THEN packet.iceControlling ELSE packet.iceControlled

\* The agent has kept its role, replied 487 and done nothing else: no
\* conclusion was run either.
Replied487(before, after, packet) ==
    after = [before EXCEPT !.out =
                <<ErrorToA(packet.tr_id, packet.dst, packet.src, 4, 87)>>,
                           !.concluded = FALSE]

\* The agent has changed its role and gone on to answer the request.
SwitchedRole(before, after) ==
    /\ after.role # before.role
    /\ Len(after.out) = 1
    /\ after.out[1].type = "success"

\* C6 as stated: on a role conflict the receiver switches role exactly when
\* its tie-breaker is the lesser of the two, and otherwise keeps its role,
\* replies 487 and processes the request no further, whichever role the two
\* agents both claim.
LesserTieBreakerSwitches ==
    [][\A packet \in net :
        (net' = net \ {packet} /\ RoleConflict(LoneAgent, packet))
        => IF LoneAgent.tie_breaker < ConflictingTieBreaker(LoneAgent, packet)
           THEN SwitchedRole(LoneAgent, LoneAgent')
           ELSE Replied487(LoneAgent, LoneAgent', packet)]_vars

\* C6 as amended: a Controlling receiver of ICE-CONTROLLING switches to
\* Controlled exactly when its tie-breaker is less than the request's; a
\* Controlled receiver of ICE-CONTROLLED switches to Controlling exactly when
\* its tie-breaker is greater than or equal to the request's; otherwise the
\* receiver keeps its role, replies 487 and processes the request no further.
RoleConflictResolved ==
    [][\A packet \in net :
        (net' = net \ {packet} /\ RoleConflict(LoneAgent, packet))
        => IF LoneAgent.role = "Controlling"
           THEN IF LoneAgent.tie_breaker < packet.iceControlling
                THEN SwitchedRole(LoneAgent, LoneAgent') /\ LoneAgent'.role = "Controlled"
                ELSE Replied487(LoneAgent, LoneAgent', packet)
           ELSE IF LoneAgent.tie_breaker >= packet.iceControlled
                THEN SwitchedRole(LoneAgent, LoneAgent') /\ LoneAgent'.role = "Controlling"
                ELSE Replied487(LoneAgent, LoneAgent', packet)]_vars

\* A Controlled agent has replied 487 to a request: the last packet it sent
\* is the 487 error response, and its role is still Controlled.
ControlledReplied487 ==
    /\ LoneAgent.role = "Controlled"
    /\ net = {}
    /\ Len(LoneAgent.out) = 1
    /\ LoneAgent.out[1].type = "error"
    /\ LoneAgent.out[1].errorNumber = 87

(***************************************************************************)
(* Specification SilentSpec: agent A alone, in either role, with a peer    *)
(* that never answers; the ticker keeps ticking.  The peer offered its two *)
(* host candidates, or these and a server reflexive one per component.     *)
(***************************************************************************)
Srflx(taddr, componentID) == <<"srflx", taddr.ip, taddr.port, componentID, "2">>

SilentOffers == {HostsB, HostsB \o <<Srflx(NatB, 1), Srflx(NatA, 2)>>}

SilentInit ==
    /\ \E role \in {"Controlling", "Controlled"}, offer \in SilentOffers :
            ag = [a \in {"A"} |->
                    SetUp(role, 10, UfragA, PwdA, UfragB, PwdB, RtpA.ip, RtpA.port,
                          HostsA, offer)]
    /\ net = {}
    /\ budget = 0

SilentTick ==
    \E after \in TickResults("A") :
        /\ after.time <= SilentMaxTime
        /\ ag' = [ag EXCEPT !["A"] = after]
        /\ UNCHANGED <<net, budget>>

\* ENABLED <<SilentTick>>_vars: a tick changes the time of the agent, and
\* nothing but the time decides whether it is taken.
SilentTickEnabled ==
    \E dt \in TickIntervals : LoneAgent.time + dt <= SilentMaxTime

\* The ticker keeps ticking: WF_vars(SilentTick), with ENABLED written as the
\* state predicate above.
SilentFairness == []<>(~SilentTickEnabled) \/ []<><<SilentTick>>_vars

SilentSpec == SilentInit /\ [][SilentTick]_vars /\ SilentFairness

\* Every pair of the check list is Failed.
AllPairsFailed(cl) ==
    \A k \in 1..Len(cl.check_list) : cl.heap[cl.check_list[k]].state = "Failed"

\* C3: with a silent peer and components 1 and 2 only, every pair of the
\* check list is eventually Failed and the check list is eventually Failed,
\* and stays so.
SilentPeerFails ==
    <>[](LoneAgent.state = "Failed" /\ AllPairsFailed(LoneAgent))

\* Four pairs were sent and retransmitted, and all are Failed, as is the
\* check list.
FourPairsFailed ==
    /\ LoneAgent.state = "Failed"
    /\ Len(LoneAgent.check_list) = 4
    /\ AllPairsFailed(LoneAgent)
    /\ \A k \in 1..4 : LoneAgent.heap[LoneAgent.check_list[k]].first_sent # <<>>

\* The retransmission timeouts of a pair from its first transmission on:
\* 100 + 200 + ... + 6400 until the 7th retransmission is sent, and the
\* timeouts 200 + ... + 12800 that follow the seven retransmissions.
UntilSeventhRetransmission == 100 + 200 + 400 + 800 + 1600 + 3200 + 6400
AfterRetransmissions == 200 + 400 + 800 + 1600 + 3200 + 6400 + 12800

\* C8 as stated: with a silent peer a pair that was sent is Failed exactly
\* from 12700 ms after its first transmission on.
FailedAfter12700 ==
    \A p \in PairsOf(LoneAgent) :
        LoneAgent.heap[p].first_sent # <<>> =>
            (LoneAgent.heap[p].state = "Failed"
                <=> LoneAgent.time >= LoneAgent.heap[p].first_sent[1]
                                        + UntilSeventhRetransmission)

\* C8 as amended: with a silent peer a pair that was sent is not Failed
\* earlier than 25400 ms (200 + 400 + ... + 12800, the timeouts that follow
\* its seven retransmissions) after its first transmission, and is Failed
\* at any tick from 25500 ms (100 + 200 + ... + 12800) after it on, when the
\* ticks fall on the timeouts.
FailedAfterLastTimeout ==
    \A p \in PairsOf(LoneAgent) :
        LoneAgent.heap[p].first_sent # <<>> =>
            /\ LoneAgent.time < LoneAgent.heap[p].first_sent[1] + AfterRetransmissions
                    => LoneAgent.heap[p].state = "InProgress"
            /\ LoneAgent.time >= LoneAgent.heap[p].first_sent[1]
                                    + ICE_DEFAULT_RTO_DURATION + AfterRetransmissions
                    => LoneAgent.heap[p].state = "Failed"

\* A pair is Failed 25500 ms after its first transmission, and was not 50 ms
\* earlier: it was retransmitted 7 times.
FailedAtLastTimeout ==
    \E p \in PairsOf(LoneAgent) :
        /\ LoneAgent.heap[p].first_sent # <<>>
        /\ LoneAgent.heap[p].state = "Failed"
        /\ LoneAgent.heap[p].transmission_time + LoneAgent.heap[p].rto = LoneAgent.time
        /\ LoneAgent.time = LoneAgent.heap[p].first_sent[1]
                                + ICE_DEFAULT_RTO_DURATION + AfterRetransmissions

(***************************************************************************)
(* Two agents A and B that know each other's host candidates and           *)
(* credentials and send their STUN packets to each other.                  *)
(***************************************************************************)
AgentNames == {"A", "B"}

Peer(a) == IF a = "A" THEN "B" ELSE "A"

\* The agent that owns the address a packet is sent to.
Owner(packet) == IF packet.dst.ip = RtpA.ip THEN "A" ELSE "B"

\* The packets an agent sent in its last step.
Sent(cl) == {cl.out[k] : k \in 1..Len(cl.out)}

TwoAgents(roleA, roleB) ==
    [a \in AgentNames |-> IF a = "A" THEN AgentA(roleA) ELSE AgentB(roleB)]

\* The valid pairs of the check list that are nominated, as the transport
\* addresses they join: that of agent a first.
NominatedAddresses(a, componentID) ==
    LET cl == ag[a]
    IN {<<cl.local_candidates[cl.heap[p].local].taddr,
          cl.remote_candidates[cl.heap[p].remote].taddr>> :
            p \in NominatedValidPairs(cl, componentID)}

(***************************************************************************)
(* Specification PairSpec: A is Controlling and B is Controlled.  The      *)
(* network loses nothing and delivers every packet before the next tick;   *)
(* the two tickers keep ticking and stay within one tick of each other.    *)
(***************************************************************************)
PairInit ==
    /\ ag = TwoAgents("Controlling", "Controlled")
    /\ net = {}
    /\ budget = 0

PairTick ==
    \E a \in AgentNames :
        /\ net = {}
        /\ ag[a].time <= ag[Peer(a)].time
        /\ \E after \in TickResults(a) :
                /\ after.time <= PairMaxTime
                /\ ag' = [ag EXCEPT ![a] = after]
                /\ net' = Sent(after)
                /\ UNCHANGED budget

PairDeliver ==
    \E packet \in net :
        LET after == ReceiveOf(ag[Owner(packet)], packet)
        IN /\ ag' = [ag EXCEPT ![Owner(packet)] = after]
           /\ net' = (net \ {packet}) \cup Sent(after)
           /\ UNCHANGED budget

PairNext == PairTick \/ PairDeliver

\* ENABLED <<PairNext>>_vars: a packet is in flight, or an agent that is not
\* ahead of its peer can tick.
PairNextEnabled ==
    \/ net # {}
    \/ \E a \in AgentNames, dt \in TickIntervals :
            /\ ag[a].time <= ag[Peer(a)].time
            /\ ag[a].time + dt <= PairMaxTime

\* Packets are delivered and the tickers keep ticking: WF_vars(PairNext),
\* with ENABLED written as the state predicate above.
PairFairness == []<>(~PairNextEnabled) \/ []<><<PairNext>>_vars

PairSpec == PairInit /\ [][PairNext]_vars /\ PairFairness

\* Agent a sends a binding request with USE-CANDIDATE for the component.
SendsUseCandidate(a, componentID) ==
    \E packet \in Sent(ag[a]) :
        /\ packet.type = "request"
        /\ packet.hasUseCandidate
        /\ packet.src = SocketAddress(ag[a], IF componentID = 1 THEN "RTP" ELSE "RTCP")

\* Both check lists are Completed, and for both components the nominated
\* valid pairs of A and of B join the same two transport addresses.
BothCompleted ==
    /\ \A a \in AgentNames : ag[a].state = "Completed"
    /\ \A componentID \in {1, 2} :
            /\ NominatedAddresses("A", componentID) # {}
            /\ NominatedAddresses("B", componentID)
                    = {<<t[2], t[1]>> : t \in NominatedAddresses("A", componentID)}

\* C4: a Controlling and a Controlled agent with host candidates for
\* components 1 and 2 on a loss-free network both end Completed, with
\* nominated valid pairs for components 1 and 2 that join the same transport
\* addresses on both sides, and the Controlling agent sends a binding
\* request with USE-CANDIDATE for each component.
BothAgentsComplete ==
    /\ <>[]BothCompleted
    /\ <>SendsUseCandidate("A", 1)
    /\ <>SendsUseCandidate("A", 2)

\* Both agents are Completed with matching nominated pairs, one per
\* component, and both have run their schedulers since.
BothCompletedAndTicking ==
    /\ BothCompleted
    /\ \A a \in AgentNames : ag[a].time > ag[a].keepalive_time
    /\ \A a \in AgentNames, componentID \in {1, 2} :
            Cardinality(NominatedAddresses(a, componentID)) = 1

(***************************************************************************)
(* Specification ConflictSpec: A (tie-breaker 10) and B (tie-breaker 20)   *)
(* both start Controlling.  Each agent ticks at any time, and the packets  *)
(* in flight are delivered in any order.                                   *)
(***************************************************************************)
ConflictInit ==
    /\ ag = TwoAgents("Controlling", "Controlling")
    /\ net = {}
    /\ budget = 0

ConflictTick ==
    \E a \in AgentNames : \E after \in TickResults(a) :
        /\ after.time <= ConflictMaxTime
        /\ ag' = [ag EXCEPT ![a] = after]
        /\ net' = net \cup Sent(after)
        /\ UNCHANGED budget

ConflictNext == ConflictTick \/ PairDeliver

ConflictSpec == ConflictInit /\ [][ConflictNext]_vars

\* An agent has sent a binding request.
RequestsExchanged == \E a \in AgentNames : ag[a].next_tid > 1

\* C5: of two agents that both start Controlling, with tie-breakers 10 (A)
\* and 20 (B), B stays Controlling, A is Controlled once the packets
\* exchanged are processed, and A stays Controlled once it is: the agents do
\* not settle in the same role.
ConflictSettled ==
    /\ [](ag["B"].role = "Controlling")
    /\ []((RequestsExchanged /\ net = {}) => ag["A"].role = "Controlled")
    /\ [][ag["A"].role = "Controlled" => ag'["A"].role = "Controlled"]_vars

\* A sent a binding request as the Controlling agent and B replied to it;
\* all packets are processed and A is Controlled, B Controlling.
ConflictResolvedByError ==
    /\ net = {}
    /\ ag["A"].role = "Controlled"
    /\ ag["B"].role = "Controlling"
    /\ \E p \in PairsOf(ag["A"]) : ag["A"].heap[p].role = "Controlling"
    /\ ag["B"].next_tid > 1

(***************************************************************************)
(* Specification SetupSpec: the application sets up agent A.  It adds      *)
(* local and remote candidates in any order, sets the bases of the server  *)
(* reflexive candidates, sets the role at any time, and pairs the          *)
(* candidates once.  budget counts the candidates that may still be added. *)
(***************************************************************************)
SrflxA == [ip |-> "203.0.113.7", port |-> 50000]

\* <<type, ip, port, componentID>>
SetupLocals ==
    {<<"host", RtpA.ip, RtpA.port, 1>>, <<"srflx", SrflxA.ip, SrflxA.port, 1>>,
     <<"host", RtcpA.ip, RtcpA.port, 2>>}

\* <<type, ip, port, componentID, priority, foundation>>: a priority of 0
\* has ice_add_remote_candidate compute it.
SetupRemotes ==
    {<<"host", RtpB.ip, RtpB.port, 1, 0, "1">>,
     <<"host", RtpB.ip, RtpB.port, 1, 2130706000, "1">>,
     <<"host", RtcpB.ip, RtcpB.port, 2, 0, "1">>}

SetupInit ==
    /\ ag = [a \in {"A"} |->
                ice_session_set_remote_credentials(
                    ice_session_init(10, UfragA, PwdA, RtpA.ip, RtpA.port), UfragB, PwdB)]
    /\ net = {}
    /\ budget = MaxAdds

SetupAddLocal ==
    \E c \in SetupLocals :
        /\ LoneAgent.session_state = "Stopped"
        /\ budget > 0
        /\ ag' = [ag EXCEPT !["A"] = AddLocal(@, c)]
        /\ budget' = budget - 1
        /\ UNCHANGED net

SetupAddRemote ==
    \E c \in SetupRemotes :
        /\ LoneAgent.session_state = "Stopped"
        /\ budget > 0
        /\ ag' = [ag EXCEPT !["A"] =
                    ice_add_remote_candidate(@, c[1], c[2], c[3], c[4], c[5], c[6])]
        /\ budget' = budget - 1
        /\ UNCHANGED net

\* ice_session_set_base_for_srflx_candidates
SetupSetBases ==
    /\ LoneAgent.session_state = "Stopped"
    /\ ag' = [ag EXCEPT !["A"] = ice_check_list_set_base_for_srflx_candidates(@)]
    /\ UNCHANGED <<net, budget>>

SetupSetRole ==
    \E role \in {"Controlling", "Controlled"} :
        /\ ag' = [ag EXCEPT !["A"] = ice_session_set_role(@, role)]
        /\ UNCHANGED <<net, budget>>

\* ice_session_compute_candidates_foundations, then
\* ice_session_pair_candidates.  Pairing follows the base of every server
\* reflexive local candidate, so the application has set them all.
SetupPair ==
    /\ LoneAgent.session_state = "Stopped"
    /\ \A j \in 1..Len(LoneAgent.local_candidates) : LoneAgent.local_candidates[j].base # 0
    /\ ag' = [ag EXCEPT !["A"] =
                ice_session_pair_candidates(
                    ice_check_list_compute_candidates_foundations(@))]
    /\ UNCHANGED <<net, budget>>

SetupNext ==
    SetupAddLocal \/ SetupAddRemote \/ SetupSetBases \/ SetupSetRole \/ SetupPair

SetupSpec == SetupInit /\ [][SetupNext]_vars

\* The two pairs join the same local and the same remote candidate.
SameCandidates(cl, p, q) ==
    cl.heap[p].local = cl.heap[q].local /\ cl.heap[p].remote = cl.heap[q].remote

\* C11: after pairing no two pairs of the check list join the same local
\* and the same remote candidate, and every pair that was pruned has a pair
\* of the same candidates and of no lower priority in the check list.
NoDuplicatePairs ==
    LoneAgent.session_state = "Running" =>
        /\ \A i, j \in 1..Len(LoneAgent.check_list) :
                i # j => ~SameCandidates(LoneAgent, LoneAgent.check_list[i],
                                         LoneAgent.check_list[j])
        /\ \A p \in 1..Len(LoneAgent.heap) :
                LoneAgent.heap[p].freed =>
                    \E k \in 1..Len(LoneAgent.check_list) :
                        /\ SameCandidates(LoneAgent, p, LoneAgent.check_list[k])
                        /\ ~PriorityLess(LoneAgent.heap[LoneAgent.check_list[k]].priority,
                                         LoneAgent.heap[p].priority)

(***************************************************************************)
(* Specification LimitSpec: agent A alone, the application having limited  *)
(* the connectivity checks to one or two before the candidates are paired, *)
(* with an environment that sends it binding requests.                     *)
(***************************************************************************)
LimitedAgentA(role, max_connectivity_checks) ==
    LET session == ice_session_set_max_connectivity_checks(
                        ice_session_set_role(
                            ice_session_init(10, UfragA, PwdA, RtpA.ip, RtpA.port), role),
                        max_connectivity_checks)
        gathered == ice_check_list_compute_candidates_foundations(
                        ms_list_for_each2(HostsA, AddLocal, session))
        offered == ice_session_set_remote_credentials(
                        ms_list_for_each2(HostsB, AddRemote, gathered), UfragB, PwdB)
    IN ice_session_pair_candidates(offered)

LimitInit ==
    /\ \E role \in {"Controlling", "Controlled"}, max \in {1, 2} :
            ag = [a \in {"A"} |-> LimitedAgentA(role, max)]
    /\ net = {}
    /\ budget = MaxPackets

LimitNext == Tick \/ ReceiveRequest

LimitSpec == LimitInit /\ [][LimitNext]_vars

\* C12: in every state after pairing, also after a triggered check has
\* inserted a pair for a newly learned peer reflexive candidate, the check
\* list holds at most max_connectivity_checks pairs.
CheckListWithinLimit ==
    Len(LoneAgent.check_list) <= LoneAgent.max_connectivity_checks

(***************************************************************************)
(* Specification SwapSpec: as Spec, the peer having given its RTP          *)
(* candidate the priority A computes for its RTCP candidate and its RTCP   *)
(* candidate the priority A computes for its RTP candidate.                *)
(***************************************************************************)
SwappedB ==
    <<<<"host", RtpB.ip, RtpB.port, 1, 2130706430, "1">>,
      <<"host", RtcpB.ip, RtcpB.port, 2, 2130706431, "1">>>>

AddOffered(cl, c) == ice_add_remote_candidate(cl, c[1], c[2], c[3], c[4], c[5], c[6])

SwapAgentA(role) ==
    LET session == ice_session_set_role(
                        ice_session_init(10, UfragA, PwdA, RtpA.ip, RtpA.port), role)
        gathered == ice_check_list_compute_candidates_foundations(
                        ms_list_for_each2(HostsA, AddLocal, session))
        offered == ice_session_set_remote_credentials(
                        ms_list_for_each2(SwappedB, AddOffered, gathered), UfragB, PwdB)
    IN ice_session_pair_candidates(offered)

SwapInit ==
    /\ \E role \in {"Controlling", "Controlled"} : ag = [a \in {"A"} |-> SwapAgentA(role)]
    /\ net = {}
    /\ budget = MaxPackets

SwapSpec == SwapInit /\ [][Next]_vars

ValidListSortedOf(cl) ==
    /\ \A i, j \in 1..Len(cl.valid_list) :
            i < j => ~PriorityLess(cl.heap[cl.valid_list[i].valid].priority,
                                   cl.heap[cl.valid_list[j].valid].priority)
    /\ \A i, j \in 1..Len(cl.valid_list) :
            i # j => cl.valid_list[i] # cl.valid_list[j]

\* C13: the valid list is sorted by descending priority of the valid pair
\* and holds no two entries with the same valid pair and the same
\* generated_from pair, also after a change of role has recomputed the pair
\* priorities.
ValidListSorted == ValidListSortedOf(LoneAgent)

\* C14: right after a step that ran the conclusion, running the conclusion
\* again changes nothing: no pair leaves the check list or the triggered
\* check queue, no flag, counter or state changes, the callback is not
\* invoked.
ConclusionIdempotent ==
    LoneAgent.concluded => ice_conclude_processing(LoneAgent) = LoneAgent

\* C15: at all times the priority of every pair is the pair priority
\* formula applied to its current local and remote candidates under the
\* current role of the session, whatever the calls of ice_session_set_role
\* (with the current role or with the other one).
PairPrioritiesFollowRole ==
    \A p \in 1..Len(LoneAgent.heap) :
        ~LoneAgent.heap[p].freed =>
            LoneAgent.heap[p].priority =
                ice_compute_pair_priority(LoneAgent, LoneAgent.heap[p], LoneAgent.role).priority

\* C16: a step that adds a remote candidate whose transport address equals
\* that of a remote candidate already in the list leaves the length of the
\* remote candidate list unchanged.
NoSecondRemoteCandidate ==
    [][\A c \in SetupRemotes :
        (/\ budget' = budget - 1
         /\ ag' = [ag EXCEPT !["A"] =
                    ice_add_remote_candidate(@, c[1], c[2], c[3], c[4], c[5], c[6])]
         /\ ice_find_candidate_from_transport_address(LoneAgent.remote_candidates,
                [ip |-> c[2], port |-> c[3]]) # 0)
        => Len(ag'["A"].remote_candidates) = Len(ag["A"].remote_candidates)]_vars

(***************************************************************************)
(* Specification KeepSpec: the two agents of PairSpec, with tickers that   *)
(* run until KeepMaxTime.                                                  *)
(***************************************************************************)
KeepTick ==
    \E a \in AgentNames :
        /\ net = {}
        /\ ag[a].time <= ag[Peer(a)].time
        /\ \E after \in TickResults(a) :
                /\ after.time <= KeepMaxTime
                /\ ag' = [ag EXCEPT ![a] = after]
                /\ net' = Sent(after)
                /\ UNCHANGED budget

KeepNext == KeepTick \/ PairDeliver

KeepSpec == PairInit /\ [][KeepNext]_vars

\* The STUN indications among the packets sent in the last step.
Indications(cl) == SelectSeq(cl.out, LAMBDA m : m.type = "indication")

\* One indication for each registered componentID, from the socket of the
\* component to the remote address of a nominated valid pair of it.
OneIndicationPerComponent(cl) ==
    /\ Len(Indications(cl)) = Len(cl.componentIDs)
    /\ \A k \in 1..Len(cl.componentIDs) :
            \E i \in 1..Len(Indications(cl)) :
                /\ Indications(cl)[i].src =
                        SocketAddress(cl, IF cl.componentIDs[k] = 1 THEN "RTP" ELSE "RTCP")
                /\ \E p \in NominatedValidPairs(cl, cl.componentIDs[k]) :
                        Indications(cl)[i].dst = cl.remote_candidates[cl.heap[p].remote].taddr

\* A step from before to after of an agent keeps to the keep-alive rule.
KeepaliveStep(before, after) ==
    IF /\ after.time # before.time
       /\ before.state = "Completed"
       /\ after.time - before.keepalive_time >= before.keepalive_timeout * 1000
    THEN OneIndicationPerComponent(after) /\ after.keepalive_time = after.time
    ELSE /\ Len(Indications(after)) = 0
         /\ after.keepalive_time =
                IF before.state # "Completed" /\ after.state = "Completed"
                THEN after.time ELSE before.keepalive_time

\* C17: on every tick of a Completed check list at which keepalive_timeout
\* seconds or more have passed since keepalive_time (the time of completion
\* or of the previous keep-alive) one STUN indication is sent for each
\* registered componentID over a nominated valid pair of the component and
\* keepalive_time becomes the current time; in every other step (check list
\* Running or Failed, less time passed, a received packet) no indication is
\* sent and keepalive_time changes only when the check list is completed.
KeepaliveEveryTimeout ==
    [][\A a \in AgentNames : ag'[a] # ag[a] => KeepaliveStep(ag[a], ag'[a])]_vars

\* The second keep-alive of an agent was sent in its last step.
SecondKeepaliveSent ==
    \E a \in AgentNames :
        /\ ag[a].state = "Completed"
        /\ Len(Indications(ag[a])) = 2
        /\ ag[a].keepalive_time = ag[a].time
        /\ ag[a].time > 2 * ag[a].keepalive_timeout * 1000

(***************************************************************************)
(* Specification PrflxSpec: agent A alone, in either role, with an         *)
(* environment that sends it binding requests from addresses behind a NAT, *)
(* with a PRIORITY attribute of 0 or of a peer reflexive candidate.        *)
(***************************************************************************)
PrflxRequests ==
    {[RequestToA(src, dst, use, controlling, 20) EXCEPT !.priority = priority] :
        src \in {NatB, NatA}, dst \in {RtpA, RtcpA}, use \in BOOLEAN,
        controlling \in BOOLEAN, priority \in {0, 1862270975}}

ReceivePrflxRequest == \E packet \in PrflxRequests : Receive(packet)

PrflxNext == Tick \/ ReceivePrflxRequest

PrflxSpec == Init /\ [][PrflxNext]_vars

\* The request was accepted: a success response was sent.
Accepted(after) == \E i \in 1..Len(after.out) : after.out[i].type = "success"

\* After the request, the remote candidate list has one more candidate, the
\* peer reflexive candidate the claim describes, and the check list holds
\* its pair with the receiving local candidate at the place of its
\* priority, Waiting and queued for a triggered check.
LearnedFrom(before, after, packet) ==
    LET n == Len(before.remote_candidates) + 1
        local == ice_find_candidate_from_transport_address(before.local_candidates, packet.dst)
    IN /\ Len(after.remote_candidates) = n
       /\ after.remote_candidates[n].type = "prflx"
       /\ after.remote_candidates[n].taddr = packet.src
       /\ after.remote_candidates[n].componentID =
                (IF packet.dst.port = before.loc_port THEN 1 ELSE 2)
       /\ after.remote_candidates[n].priority = packet.priority
       /\ \A k \in 1..(n - 1) :
                after.remote_candidates[k].foundation # after.remote_candidates[n].foundation
       /\ \E i \in 1..Len(after.check_list) :
            LET p == after.check_list[i]
            IN /\ after.heap[p].local = local
               /\ after.heap[p].remote = n
               /\ after.heap[p].state = "Waiting"
               /\ \E q \in 1..Len(after.triggered_checks_queue) :
                        after.triggered_checks_queue[q] = p
               /\ \A j \in 1..Len(after.check_list) :
                    /\ j < i => ~PriorityLess(after.heap[after.check_list[j]].priority,
                                              after.heap[p].priority)
                    /\ j > i => ~PriorityLess(after.heap[p].priority,
                                              after.heap[after.check_list[j]].priority)

\* C18: when a binding request is accepted whose source address is that of
\* no remote candidate, a peer reflexive remote candidate is added with
\* that address, the componentID of the receiving socket, the priority of
\* the PRIORITY attribute and a foundation no other remote candidate has,
\* and its pair with the receiving local candidate is in the check list at
\* the place of its priority, Waiting, and in the triggered check queue.
LearnsPeerReflexiveCandidate ==
    [][\A packet \in PrflxRequests :
        (/\ budget' = budget - 1
         /\ ag' = [ag EXCEPT !["A"] = ReceiveOf(ag["A"], packet)]
         /\ Accepted(ag'["A"])
         /\ ice_find_candidate_from_transport_address(
                ag["A"].remote_candidates, packet.src) = 0)
        => LearnedFrom(ag["A"], ag'["A"], packet)]_vars

\* The pairs that the step from before to after has set to Failed.
NewlyFailed(before, after) ==
    {p \in 1..Len(before.heap) :
        before.heap[p].state # "Failed" /\ after.heap[p].state = "Failed"}

\* C20: the check list becomes Failed only in a step that runs the
\* conclusion and leaves some registered componentID without a nominated
\* valid pair and every pair of the check list Failed or Succeeded; a step
\* that does not run the conclusion (a rejected message, a non-symmetric
\* response) leaves the state of the check list as it is; a received message
\* fails at most one pair, and a tick fails only pairs that were InProgress
\* (their retransmissions timed out).
FailedOnlyByConclusion ==
    [][LET before == ag["A"]
           after == ag'["A"]
       IN /\ (before.state # "Failed" /\ after.state = "Failed") =>
                /\ after.concluded
                /\ ~ice_find_nominated_valid_pair_for_componentID(after)
                /\ \A k \in 1..Len(after.check_list) :
                        after.heap[after.check_list[k]].state \in {"Failed", "Succeeded"}
          /\ ~after.concluded => after.state = before.state
          /\ after.time = before.time => Cardinality(NewlyFailed(before, after)) <= 1
          /\ after.time # before.time =>
                \A p \in NewlyFailed(before, after) : before.heap[p].state = "InProgress"]_vars

\* The check list has just become Failed in a step that failed a pair and
\* ran the conclusion.
FailedByConclusion ==
    /\ LoneAgent.state = "Failed"
    /\ LoneAgent.concluded
    /\ Len(LoneAgent.out) = 0
    /\ \E k \in 1..Len(LoneAgent.check_list) :
            LoneAgent.heap[LoneAgent.check_list[k]].state = "Failed"

(***************************************************************************)
(* Specification ElevenSpec: the application adds NbHosts local and        *)
(* NbHosts remote host candidates for component 1, one by one, and pairs   *)
(* them.  net holds the candidates added so far, as <<side, number>>.      *)
(***************************************************************************)
ElevenInit ==
    /\ ag = [a \in {"A"} |->
                ice_session_set_remote_credentials(
                    ice_session_init(10, UfragA, PwdA, RtpA.ip, RtpA.port), UfragB, PwdB)]
    /\ net = {}
    /\ budget = 0

ElevenAddLocal ==
    \E k \in 1..NbHosts :
        /\ LoneAgent.session_state = "Stopped"
        /\ <<"local", k>> \notin net
        /\ \A j \in 1..(k - 1) : <<"local", j>> \in net
        /\ ag' = [ag EXCEPT !["A"] =
                    ice_add_local_candidate(@, "host", RtpA.ip, RtpA.port + 2 * (k - 1), 1, 0)]
        /\ net' = net \cup {<<"local", k>>}
        /\ UNCHANGED budget

ElevenAddRemote ==
    \E k \in 1..NbHosts :
        /\ LoneAgent.session_state = "Stopped"
        /\ <<"remote", k>> \notin net
        /\ \A j \in 1..(k - 1) : <<"remote", j>> \in net
        /\ ag' = [ag EXCEPT !["A"] =
                    ice_add_remote_candidate(@, "host", RtpB.ip, RtpB.port + 2 * (k - 1), 1, 0, "1")]
        /\ net' = net \cup {<<"remote", k>>}
        /\ UNCHANGED budget

ElevenPair ==
    /\ LoneAgent.session_state = "Stopped"
    /\ ag' = [ag EXCEPT !["A"] =
                ice_session_pair_candidates(
                    ice_check_list_compute_candidates_foundations(@))]
    /\ UNCHANGED <<net, budget>>

ElevenNext == ElevenAddLocal \/ ElevenAddRemote \/ ElevenPair

ElevenSpec == ElevenInit /\ [][ElevenNext]_vars

\* C19: once NbHosts (11) host candidates per side were added for one
\* componentID and paired, 121 pairs were formed, the check list holds the
\* 100 (the default max_connectivity_checks) of highest priority and the
\* other 21 were discarded.
ElevenHostsGive121Pairs ==
    (LoneAgent.session_state = "Running" /\ Cardinality(net) = 2 * NbHosts) =>
        /\ Len(LoneAgent.heap) = NbHosts * NbHosts
        /\ Len(LoneAgent.check_list) = LoneAgent.max_connectivity_checks
        /\ Cardinality({p \in 1..Len(LoneAgent.heap) : LoneAgent.heap[p].freed})
                = NbHosts * NbHosts - LoneAgent.max_connectivity_checks
        /\ \A p \in 1..Len(LoneAgent.heap) : \A k \in 1..Len(LoneAgent.check_list) :
                LoneAgent.heap[p].freed =>
                    ~PriorityLess(LoneAgent.heap[LoneAgent.check_list[k]].priority,
                                  LoneAgent.heap[p].priority)

(***************************************************************************)
(* Rejected binding requests.                                              *)
(***************************************************************************)
\* The agent has answered the packet of this step with an error response:
\* only the checks of a received binding request send one.
RepliedError(after) ==
    /\ Len(after.out) = 1
    /\ after.out[1].type = "error"

\* C21: a binding request that is rejected (a required attribute is missing,
\* MESSAGE-INTEGRITY or USERNAME is wrong, or a role conflict is answered
\* with 487) changes nothing but the packets sent: the role, the candidates,
\* the pairs and their states, the lists and the queue are as before, the
\* only packet sent is the error response, and the conclusion is not run.
RejectedRequestChangesNothing ==
    [][RepliedError(LoneAgent')
        => LoneAgent' = [LoneAgent EXCEPT !.out = LoneAgent'.out,
                                          !.concluded = FALSE]]_vars

\* A request was rejected with error 401 while a check was in progress and
\* a valid pair was known.
RejectedWhileChecking ==
    /\ RepliedError(LoneAgent)
    /\ LoneAgent.out[1].errorNumber = 1
    /\ Len(LoneAgent.valid_list) > 0
    /\ \E k \in 1..Len(LoneAgent.check_list) :
            LoneAgent.heap[LoneAgent.check_list[k]].state = "InProgress"

(***************************************************************************)
(* Specification PrioritySpec: the 64-bit pair priority, bit for bit.  A   *)
(* 32-bit priority is <<bit 31, bits 30..0>>, a 64-bit pair priority       *)
(* <<bit 63, bits 62..32, bit 31, bits 30..0>>.  Pairs are given by the    *)
(* priorities G and D of their candidates, which are those of the host     *)
(* candidates, small ones, and ones a PRIORITY attribute may carry, and    *)
(* are kept in a list sorted by pair priority, as the check list is.       *)
(***************************************************************************)
PriorityValues ==
    {<<0, 2>>, <<0, 3>>, <<0, 2130706431>>, <<0, 2147483647>>, <<1, 0>>, <<1, 100>>}

\* a < b for 32-bit values.
Less32(a, b) == a[1] < b[1] \/ (a[1] = b[1] /\ a[2] < b[2])

MIN32(a, b) == IF Less32(b, a) THEN b ELSE a

MAX32(a, b) == IF Less32(a, b) THEN b ELSE a

\* (MIN(G, D) << 32) | (MAX(G, D) << 1) | (G > D ? 1 : 0) in uint64_t: bit 31
\* of MAX is shifted into bit 32, where bit 0 of MIN is.
PairPriority64(G, D) ==
    LET min == MIN32(G, D)
        max == MAX32(G, D)
    IN <<min[1],
         IF max[1] = 1 /\ min[2] % 2 = 0 THEN min[2] + 1 ELSE min[2],
         max[2] \div 1073741824,
         (max[2] % 1073741824) * 2 + (IF Less32(D, G) THEN 1 ELSE 0)>>

\* p < q for 64-bit values.
Less64(p, q) ==
    \E k \in 1..4 : p[k] < q[k] /\ \A j \in 1..(k - 1) : p[j] = q[j]

\* (min(G,D), max(G,D), G>D) of the one pair before that of the other.
LexicographicLess(p, q) ==
    LET minp == MIN32(p.G, p.D)
        minq == MIN32(q.G, q.D)
        maxp == MAX32(p.G, p.D)
        maxq == MAX32(q.G, q.D)
    IN \/ Less32(minp, minq)
       \/ minp = minq /\ Less32(maxp, maxq)
       \/ minp = minq /\ maxp = maxq /\ ~Less32(p.D, p.G) /\ Less32(q.D, q.G)

PriorityInit ==
    /\ ag = [a \in {"A"} |-> [pairs |-> <<>>]]
    /\ net = {}
    /\ budget = MaxPriorityPairs

\* A pair is created for candidates of priorities G and D and inserted into
\* the list sorted by pair priority.
PriorityAddPair ==
    \E G \in PriorityValues, D \in PriorityValues :
        /\ budget > 0
        /\ ag' = [ag EXCEPT !["A"].pairs =
                    ms_list_insert_sorted(@, [G |-> G, D |-> D, priority |-> PairPriority64(G, D)],
                        LAMBDA p1, p2 : Less64(p1.priority, p2.priority))]
        /\ budget' = budget - 1
        /\ UNCHANGED net

PrioritySpec == PriorityInit /\ [][PriorityAddPair]_vars

\* C22: the pair priority holds min(G,D) in its bits 63..32, max(G,D) in its
\* bits 32..1 and G>D in its bit 0 without overlap, and two pairs are
\* ordered by their priorities as by (min(G,D), max(G,D), G>D), also for
\* candidate priorities of 2^31 and above.
PairPriorityLexicographic ==
    \A i \in 1..Len(LoneAgent.pairs), j \in 1..Len(LoneAgent.pairs) :
        LET p == LoneAgent.pairs[i]
            q == LoneAgent.pairs[j]
        IN /\ <<p.priority[1], p.priority[2]>> = MIN32(p.G, p.D)
           /\ <<0, p.priority[3] * 1073741824 + p.priority[4] \div 2>> = MAX32(p.G, p.D)
           /\ p.priority[4] % 2 = (IF Less32(p.D, p.G) THEN 1 ELSE 0)
           /\ Less64(p.priority, q.priority) <=> LexicographicLess(p, q)

(***************************************************************************)
(* Nomination.                                                             *)
(***************************************************************************)
\* The valid pairs that are nominated.
NominatedValid(cl) ==
    {cl.valid_list[k].valid : k \in
        {j \in 1..Len(cl.valid_list) : cl.heap[cl.valid_list[j].valid].is_nominated}}

\* The step has answered a check that carried USE-CANDIDATE: a nominated
\* pair in progress has become Succeeded.
NominatingCheckAnswered(before, after) ==
    \E p \in 1..Len(before.heap) :
        /\ before.heap[p].is_nominated
        /\ before.heap[p].state = "InProgress"
        /\ after.heap[p].state = "Succeeded"

\* C23: in the Controlling role a valid pair becomes nominated only in a
\* step that answers a check of an already nominated pair (one sent with
\* USE-CANDIDATE), and the check list becomes Completed only in such a step.
ControllingNominatesOnAnsweredCheck ==
    [][(LoneAgent.role = "Controlling" /\ LoneAgent'.role = "Controlling")
        => /\ NominatedValid(LoneAgent') \subseteq NominatedValid(LoneAgent)
                \/ NominatingCheckAnswered(LoneAgent, LoneAgent')
           /\ (LoneAgent.state # "Completed" /\ LoneAgent'.state = "Completed")
                => NominatingCheckAnswered(LoneAgent, LoneAgent')]_vars

(***************************************************************************)
(* Specification PlainSpec: agent A alone, Controlled, with a Controlling  *)
(* peer that answers its checks and sends it checks of its own, none of    *)
(* which carries USE-CANDIDATE.                                            *)
(***************************************************************************)
PlainRequests ==
    {RequestToA(src, dst, FALSE, TRUE, 20) : src \in {RtpB, RtcpB}, dst \in {RtpA, RtcpA}}

PlainInit ==
    /\ ag = [a \in {"A"} |-> AgentA("Controlled")]
    /\ net = {}
    /\ budget = MaxPackets

ReceivePlainRequest == \E packet \in PlainRequests : Receive(packet)

PlainNext == Tick \/ ReceivePlainRequest \/ ReceiveResponse

PlainSpec == PlainInit /\ [][PlainNext]_vars

\* C24: in the Controlled role a valid pair is marked nominated only if a
\* request with USE-CANDIDATE has been received for it: where none is ever
\* received, no valid pair is nominated and the check list is not Completed.
ControlledNeedsUseCandidate ==
    LoneAgent.role = "Controlled"
        => NominatedValid(LoneAgent) = {} /\ LoneAgent.state # "Completed"

\* C25: after a conclusion step, for each nominated valid pair no Waiting or
\* Frozen pair of its componentID is left in the check list or in the
\* triggered checks queue, and every InProgress pair of that componentID in
\* the check list has its retransmission count at ICE_MAX_RETRANSMISSIONS.
ConclusionClearsComponent ==
    LoneAgent.concluded =>
        \A v \in NominatedValid(LoneAgent) :
            /\ \A k \in 1..Len(LoneAgent.check_list) :
                LET p == LoneAgent.check_list[k]
                IN ComponentOf(LoneAgent, p) = ComponentOf(LoneAgent, v)
                    => /\ LoneAgent.heap[p].state \notin {"Waiting", "Frozen"}
                       /\ LoneAgent.heap[p].state = "InProgress"
                            => LoneAgent.heap[p].retransmissions = ICE_MAX_RETRANSMISSIONS
            /\ \A k \in 1..Len(LoneAgent.triggered_checks_queue) :
                LET p == LoneAgent.triggered_checks_queue[k]
                IN ComponentOf(LoneAgent, p) = ComponentOf(LoneAgent, v)
                    => LoneAgent.heap[p].state \notin {"Waiting", "Frozen"}

(***************************************************************************)
(* The states of the pairs after pairing.                                  *)
(***************************************************************************)
\* The pair of the check list that stands for the foundation of pair p: of
\* the pairs with that foundation, the one with the lowest componentID and,
\* among those, the highest priority.
IsRepresentative(cl, p) ==
    \A k \in 1..Len(cl.check_list) :
        LET q == cl.check_list[k]
        IN (q # p /\ ~ice_compare_pair_foundations(cl, p, q))
            => \/ ComponentOf(cl, p) < ComponentOf(cl, q)
               \/ /\ ComponentOf(cl, p) = ComponentOf(cl, q)
                  /\ PriorityLess(cl.heap[q].priority, cl.heap[p].priority)

\* C26: after pairing (before the first tick), for every pair foundation of
\* the session's first check list the pair with the lowest componentID and,
\* among those, the highest priority is Waiting, and all other pairs are
\* Frozen.
OneWaitingPairPerFoundation ==
    LoneAgent.time = 0 =>
        \A k \in 1..Len(LoneAgent.check_list) :
            LET p == LoneAgent.check_list[k]
            IN LoneAgent.heap[p].state =
                    IF IsRepresentative(LoneAgent, p) THEN "Waiting" ELSE "Frozen"

(***************************************************************************)
(* The choice of the pair to check at a tick.                              *)
(***************************************************************************)
\* The check list when the scheduler chooses the pair to check at the tick
\* that leads from before to after: the retransmissions are handled first.
AtChoice(before, after) ==
    LET ticked == [before EXCEPT !.time = after.time, !.out = <<>>, !.concluded = FALSE]
    IN ms_list_for_each2(ticked.check_list,
            LAMBDA c, p : ice_handle_connectivity_check_retransmission(c, p, 0), ticked)

\* The pairs for which a new transaction was started in the step.
Chosen(before, after) ==
    {p \in 1..Len(after.heap) :
        /\ after.heap[p].state = "InProgress"
        /\ after.heap[p].transactionID >= before.next_tid
        /\ after.next_tid > before.next_tid}

\* No pair of the check list in this state has a higher priority than pair.
HighestPriorityIn(cl, pair, state) ==
    /\ cl.heap[pair].state = state
    /\ \E k \in 1..Len(cl.check_list) : cl.check_list[k] = pair
    /\ \A k \in 1..Len(cl.check_list) :
            cl.heap[cl.check_list[k]].state = state
                => ~PriorityLess(cl.heap[pair].priority, cl.heap[cl.check_list[k]].priority)

\* The tick from before to after chose as the claim says.
ChoseInOrder(before, after) ==
    LET cl == AtChoice(before, after)
        InState(state) == \E k \in 1..Len(cl.check_list) :
                                cl.heap[cl.check_list[k]].state = state
    IN IF cl.triggered_checks_queue # <<>>
       THEN /\ after.triggered_checks_queue = Tail(cl.triggered_checks_queue)
            /\ Chosen(before, after) \subseteq {cl.triggered_checks_queue[1]}
       ELSE IF InState("Waiting")
       THEN \E p \in Chosen(before, after) :
                /\ Chosen(before, after) = {p}
                /\ HighestPriorityIn(cl, p, "Waiting")
       ELSE IF InState("Frozen")
       THEN \E p \in Chosen(before, after) :
                /\ Chosen(before, after) = {p}
                /\ HighestPriorityIn(cl, p, "Frozen")
       ELSE Chosen(before, after) = {}

\* C27: at a paced tick of a Running check list the head of the triggered
\* checks queue is removed and checked and no other check is started; with
\* an empty queue the Waiting pair of the highest priority is checked, and
\* with no Waiting pair the Frozen pair of the highest priority.
TickChoosesInOrder ==
    [][(/\ LoneAgent'.time # LoneAgent.time
        /\ LoneAgent.state = "Running"
        /\ LoneAgent.session_state = "Running"
        /\ TimeSince(LoneAgent'.time, LoneAgent.ta_time) >= LoneAgent.ta)
            => ChoseInOrder(LoneAgent, LoneAgent')]_vars

(***************************************************************************)
(* Specification PaceSpec: agent A alone with a ticker of a period of      *)
(* half Ta, and the environment of Spec.  The variable net records the     *)
(* connectivity checks sent for the first time: the transaction ID and     *)
(* the time of each.                                                       *)
(***************************************************************************)
\* The time (ms) between two ticks.
PaceIntervals == {10}

\* The binding requests of the step that start a transaction.
FirstTransmissions(before, after) ==
    {[tr_id |-> after.out[k].tr_id, time |-> after.time] :
        k \in {j \in 1..Len(after.out) :
                /\ after.out[j].type = "request"
                /\ after.out[j].tr_id >= before.next_tid}}

PaceInit ==
    /\ \E role \in {"Controlling", "Controlled"} : ag = [a \in {"A"} |-> AgentA(role)]
    /\ net = {}
    /\ budget = PaceMaxPackets

PaceTick ==
    \E dt \in PaceIntervals : \E garbage \in GarbageTimes(ag["A"].time + dt) :
        \E after \in {TickOf(ag["A"], dt, garbage)} :
            /\ after.time <= PaceMaxTime
            /\ ag' = [ag EXCEPT !["A"] = after]
            /\ net' = net \cup FirstTransmissions(ag["A"], after)
            /\ UNCHANGED budget

PaceReceive(packet) ==
    /\ budget > 0
    /\ \E after \in {ReceiveOf(ag["A"], packet)} :
            /\ ag' = [ag EXCEPT !["A"] = after]
            /\ net' = net \cup FirstTransmissions(ag["A"], after)
    /\ budget' = budget - 1

\* Binding requests of the peer, seen from its RTP address or from behind a
\* NAT, with or without USE-CANDIDATE.
PaceRequests ==
    {RequestToA(src, RtpA, use, controlling, 20) :
        src \in {RtpB, NatB}, use \in BOOLEAN, controlling \in {FALSE}}

PaceReceiveRequest == \E packet \in PaceRequests : PaceReceive(packet)

PaceReceiveResponse == \E packet \in EnvResponses(ag["A"]) : PaceReceive(packet)

PaceNext == PaceTick \/ PaceReceiveRequest \/ PaceReceiveResponse

PaceSpec == PaceInit /\ [][PaceNext]_vars

\* C28: the first transmissions of connectivity checks of a check list are
\* paced: no two of them are sent at the same tick, and any two of them are
\* at least Ta (20 ms) apart.
FirstTransmissionsPaced ==
    \A s, t \in net :
        s # t => \/ s.time - t.time >= ICE_DEFAULT_TA_DURATION
                 \/ t.time - s.time >= ICE_DEFAULT_TA_DURATION

\* Two checks were sent for the first time exactly Ta apart, and at this
\* tick a check is retransmitted while another is sent for the first time.
TwoChecksTaApart ==
    /\ \E s, t \in net : t.time - s.time = ICE_DEFAULT_TA_DURATION
    /\ \E s, t \in net :
        /\ s.time < LoneAgent.time
        /\ t.time = LoneAgent.time
        /\ \E k \in 1..Len(LoneAgent.out) :
                /\ LoneAgent.out[k].type = "request"
                /\ LoneAgent.out[k].tr_id = s.tr_id

(***************************************************************************)
(* An accepted binding request for a pair of the check list.               *)
(***************************************************************************)
\* The place in the check list of the pair of the socket the packet came in
\* on and of the remote candidate it came from, 0 if there is none.
PairOfRequest(cl, packet) ==
    LET local == ice_find_candidate_from_transport_address(cl.local_candidates, packet.dst)
        remote == ice_find_candidate_from_transport_address(cl.remote_candidates, packet.src)
    IN IF local = 0 \/ remote = 0 THEN 0
       ELSE ice_find_pair_from_candidates(cl, local, remote)

\* How often the pair is in the triggered checks queue.
TimesQueued(cl, pair) ==
    Cardinality({q \in 1..Len(cl.triggered_checks_queue) : cl.triggered_checks_queue[q] = pair})

\* What the claim says of the pair of an accepted request and of the reply.
TriggeredAsStated(before, after, packet) ==
    LET pair == before.check_list[PairOfRequest(before, packet)]
        state == before.heap[pair].state
    IN /\ state \in {"Waiting", "Frozen", "Failed"} =>
            /\ after.heap[pair].state = "Waiting"
            /\ TimesQueued(after, pair) = 1
       /\ state = "Succeeded" =>
            /\ after.heap[pair].state = "Succeeded"
            /\ TimesQueued(after, pair) <= TimesQueued(before, pair)
       /\ state = "InProgress" =>
            /\ after.heap[pair].state = "InProgress"
            /\ after.heap[pair].transactionID = before.heap[pair].transactionID
       /\ \E i \in 1..Len(after.out) :
            /\ after.out[i].type = "success"
            /\ after.out[i].tr_id = packet.tr_id
            /\ after.out[i].dst = packet.src

\* C29: when a binding request is accepted whose pair is in the check list,
\* a Waiting, Frozen or Failed pair is Waiting and once in the triggered
\* checks queue afterwards, a Succeeded pair keeps its state and is not
\* queued, an InProgress pair keeps its state and transaction, and a success
\* response is sent to the source of the request.
AcceptedRequestTriggersCheck ==
    [][\A packet \in EnvRequests :
        (/\ budget' = budget - 1
         /\ PairOfRequest(LoneAgent, packet) # 0
         /\ LoneAgent' = ReceiveOf(LoneAgent, packet)
         /\ ~RepliedError(LoneAgent'))
        => TriggeredAsStated(LoneAgent, LoneAgent', packet)]_vars

(***************************************************************************)
(* The flag wait_transaction_timeout.                                      *)
(***************************************************************************)
\* The InProgress pairs of the check list with the flag set whose
\* retransmission timer expires at the tick from before to after.
FlaggedAndExpired(before, after) ==
    {p \in {before.check_list[k] : k \in 1..Len(before.check_list)} :
        /\ before.heap[p].state = "InProgress"
        /\ before.heap[p].wait_transaction_timeout
        /\ TimeSince(after.time, before.heap[p].transmission_time) >= before.heap[p].rto}

\* The pair was not retransmitted: its flag is cleared, its retransmission
\* count is not incremented, no request of its transaction is sent, and it
\* is Waiting without transaction ID in the triggered checks queue, unless
\* the same tick has taken it from the queue and started a new transaction.
RequeuedNotRetransmitted(before, after, pair) ==
    /\ ~after.heap[pair].wait_transaction_timeout
    /\ after.heap[pair].retransmissions <= before.heap[pair].retransmissions
    /\ \A i \in 1..Len(after.out) :
            after.out[i].type = "request"
                => after.out[i].tr_id # before.heap[pair].transactionID
    /\ \/ /\ after.heap[pair].state = "Waiting"
          /\ after.heap[pair].transactionID = 0
          /\ TimesQueued(after, pair) = 1
       \/ pair \in Chosen(before, after)

\* C30: when the retransmission timer of an InProgress pair with
\* wait_transaction_timeout set expires, the pair is not retransmitted: the
\* flag is cleared and the pair is Waiting, without transaction ID, in the
\* triggered checks queue; and the flag is not set on a pair when a new
\* transaction is started for it.
FlagEndsWithTransaction ==
    [][/\ (/\ LoneAgent'.time # LoneAgent.time
           /\ LoneAgent.state # "Failed")
            => \A pair \in FlaggedAndExpired(LoneAgent, LoneAgent') :
                    RequeuedNotRetransmitted(LoneAgent, LoneAgent', pair)
       /\ \A pair \in Chosen(LoneAgent, LoneAgent') :
            ~LoneAgent'.heap[pair].wait_transaction_timeout]_vars

(***************************************************************************)
(* A received error response.                                              *)
(***************************************************************************)
\* The priority of every pair of the pair pool is the one of the role.
PrioritiesOfRole(cl) ==
    \A k \in 1..Len(cl.pairs) :
        cl.heap[cl.pairs[k]].priority
            = ice_compute_pair_priority(cl, cl.heap[cl.pairs[k]], cl.role).priority

\* What the claim says of an error response with the transaction ID of the
\* pair at place elem of the check list.
ErrorHandledAsStated(before, after, packet, elem) ==
    LET pair == before.check_list[elem]
    IN /\ after.concluded
       /\ IF packet.errorClass = 4 /\ packet.errorNumber = 87
          THEN /\ after.role # before.role
               /\ PrioritiesOfRole(after)
               /\ after.heap[pair].state = "Waiting"
               /\ after.heap[pair].transactionID = 0
               /\ TimesQueued(after, pair) = 1
          ELSE after.heap[pair].state = "Failed"

\* C31: an error response with the transaction ID of a pair of the check
\* list fails the pair; if the error is 487 the role of the session is
\* flipped, the pair priorities are recomputed and the pair is Waiting
\* without transaction ID in the triggered checks queue; the conclusion
\* runs.  An error response with the transaction ID of no pair changes
\* nothing.
ErrorResponseHandled ==
    [][\A packet \in EnvErrors(LoneAgent) :
        (/\ budget' = budget - 1
         /\ LoneAgent' = ReceiveOf(LoneAgent, packet))
        => LET elem == ice_find_pair_from_transactionID(LoneAgent, packet.tr_id)
           IN IF elem = 0
              THEN LoneAgent' = [LoneAgent EXCEPT !.out = <<>>, !.concluded = FALSE]
              ELSE ErrorHandledAsStated(LoneAgent, LoneAgent', packet, elem)]_vars

(***************************************************************************)
(* A success response with non-symmetric addresses or an unknown           *)
(* transaction ID.                                                         *)
(***************************************************************************)
\* The response does not come from the remote address of the pair to its
\* local address.
NonSymmetric(cl, packet, pair) ==
    \/ packet.src # cl.remote_candidates[cl.heap[pair].remote].taddr
    \/ packet.dst # cl.local_candidates[cl.heap[pair].local].taddr

\* The agent after such a response: nothing but the pair has changed.
OnlyPairFailed(before, packet) ==
    LET elem == ice_find_pair_from_transactionID(before, packet.tr_id)
        received == [before EXCEPT !.out = <<>>, !.concluded = FALSE]
    IN IF elem = 0 THEN received
       ELSE [received EXCEPT !.heap[before.check_list[elem]] =
                [@ EXCEPT !.state = "Failed", !.transactionID = 0]]

\* C32: a success response with the transaction ID of a pair that does not
\* come from the remote address of the pair to its local address sets the
\* pair to Failed and changes nothing else; a success response with the
\* transaction ID of no pair of the check list changes nothing.
NonSymmetricResponseFails ==
    [][\A packet \in EnvResponses(LoneAgent) :
        LET elem == ice_find_pair_from_transactionID(LoneAgent, packet.tr_id)
        IN (/\ budget' = budget - 1
            /\ LoneAgent'.out = <<>>
            /\ \/ elem = 0
               \/ NonSymmetric(LoneAgent, packet, LoneAgent.check_list[elem])
            /\ LoneAgent' = ReceiveOf(LoneAgent, packet))
           => LoneAgent' = OnlyPairFailed(LoneAgent, packet)]_vars

\* A response with non-symmetric addresses has failed a pair in progress:
\* no retransmission timer has expired yet, and no error response is
\* received in this specification.
FailedByNonSymmetricResponse ==
    /\ LoneAgent.time = 50
    /\ \E p \in 1..Len(LoneAgent.heap) :
            /\ LoneAgent.heap[p].state = "Failed"
            /\ LoneAgent.heap[p].first_sent = <<50>>

(***************************************************************************)
(* Specification FoundationSpec: agent A alone, the peer having offered    *)
(* its host candidates (foundation "1") and a server reflexive candidate   *)
(* per component (foundation "2"); success responses come from any of      *)
(* these addresses.                                                        *)
(***************************************************************************)
FoundationAgentA(role) ==
    SetUp(role, 10, UfragA, PwdA, UfragB, PwdB, RtpA.ip, RtpA.port, HostsA,
          HostsB \o <<Srflx(NatB, 1), Srflx(NatA, 2)>>)

FoundationInit ==
    /\ \E role \in {"Controlling", "Controlled"} :
            ag = [a \in {"A"} |-> FoundationAgentA(role)]
    /\ net = {}
    /\ budget = MaxPackets

FoundationResponses(cl) ==
    {ResponseToA(tid, src, dst, dst) :
        tid \in 1..(cl.next_tid - 1), src \in {RtpB, RtcpB, NatB, NatA},
        dst \in {RtpA, RtcpA}}

ReceiveFoundationResponse == \E packet \in FoundationResponses(ag["A"]) : Receive(packet)

FoundationNext == Tick \/ ReceiveFoundationResponse

FoundationSpec == FoundationInit /\ [][FoundationNext]_vars

\* The two pairs have the same local foundation and the same remote
\* foundation.
SamePairFoundation(cl, p, q) ==
    /\ cl.local_candidates[cl.heap[p].local].foundation
            = cl.local_candidates[cl.heap[q].local].foundation
    /\ cl.remote_candidates[cl.heap[p].remote].foundation
            = cl.remote_candidates[cl.heap[q].remote].foundation

\* What the claim says of the pair states after a response accepted for pair.
UnfrozenAsStated(before, after, pair) ==
    /\ after.heap[pair].state = "Succeeded"
    /\ \A k \in 1..Len(before.check_list) :
        LET q == before.check_list[k]
        IN q # pair =>
            after.heap[q].state =
                IF before.heap[q].state = "Frozen" /\ SamePairFoundation(before, pair, q)
                THEN "Waiting" ELSE before.heap[q].state

\* C33: when a success response is accepted for a pair, the pair becomes
\* Succeeded, every other Frozen pair of the check list with the same local
\* and remote foundations becomes Waiting, and every other pair of the check
\* list keeps its state.
ResponseUnfreezesSameFoundation ==
    [][\A packet \in FoundationResponses(LoneAgent) :
        LET elem == ice_find_pair_from_transactionID(LoneAgent, packet.tr_id)
        IN (/\ budget' = budget - 1
            /\ elem # 0
            /\ ~NonSymmetric(LoneAgent, packet, LoneAgent.check_list[elem])
            /\ LoneAgent' = ReceiveOf(LoneAgent, packet))
           => UnfrozenAsStated(LoneAgent, LoneAgent', LoneAgent.check_list[elem])]_vars

\* A pair has succeeded, a pair of its foundation that was never sent is
\* Waiting, and a pair of another foundation is still Frozen.
UnfrozenBySuccess ==
    \E p, q, r \in 1..Len(LoneAgent.heap) :
        /\ LoneAgent.heap[p].state = "Succeeded"
        /\ q # p
        /\ LoneAgent.heap[q].state = "Waiting"
        /\ LoneAgent.heap[q].first_sent = <<>>
        /\ SamePairFoundation(LoneAgent, p, q)
        /\ LoneAgent.heap[r].state = "Frozen"
        /\ ~SamePairFoundation(LoneAgent, p, r)

(***************************************************************************)
(* The transaction ID stored in a pair.                                    *)
(***************************************************************************)
\* The binding requests sent in the step.
RequestsSent(after) ==
    {after.out[i] : i \in {j \in 1..Len(after.out) : after.out[j].type = "request"}}

\* What the claim says of the pair in the step from before to after.  A pair
\* that is InProgress before and after a tick with another transaction ID
\* was set to Waiting or Failed when the retransmissions were handled, and
\* checked again by the same tick.
TransactionKept(before, after, p) ==
    LET old == before.heap[p]
        new == after.heap[p]
    IN /\ (/\ old.state = "InProgress"
           /\ new.state = "InProgress"
           /\ new.transactionID # old.transactionID)
            => /\ after.time # before.time
               /\ AtChoice(before, after).heap[p].state \in {"Waiting", "Failed"}
               /\ AtChoice(before, after).heap[p].transactionID = 0
               /\ new.transactionID >= before.next_tid
       /\ (new.state = "InProgress" /\ old.state # "InProgress")
            => /\ new.transactionID >= before.next_tid
               /\ \E msg \in RequestsSent(after) : msg.tr_id = new.transactionID
       /\ new.state \in {"Waiting", "Failed"} => new.transactionID = 0

\* C34: a pair that stays InProgress keeps its transaction ID and every
\* retransmission carries it; a check of a pair that was not InProgress
\* uses a transaction ID never used before; the transaction ID of a pair
\* that is Waiting or Failed is cleared; no two pairs have the same
\* transaction ID, so a response to a superseded transaction matches no
\* pair.
OneTransactionPerPair ==
    [][/\ \A p \in 1..Len(LoneAgent.heap) : TransactionKept(LoneAgent, LoneAgent', p)
       /\ \A msg \in RequestsSent(LoneAgent') :
            \/ msg.tr_id >= LoneAgent.next_tid
            \/ \E p \in 1..Len(LoneAgent.heap) :
                /\ LoneAgent.heap[p].state = "InProgress"
                /\ LoneAgent'.heap[p].state = "InProgress"
                /\ LoneAgent.heap[p].transactionID = msg.tr_id
                /\ LoneAgent'.heap[p].transactionID = msg.tr_id
                /\ LoneAgent'.heap[p].retransmissions > LoneAgent.heap[p].retransmissions
       /\ \A p, q \in 1..Len(LoneAgent'.heap) :
            (p # q /\ LoneAgent'.heap[p].transactionID # 0)
                => LoneAgent'.heap[p].transactionID # LoneAgent'.heap[q].transactionID]_vars

\* A retransmission was sent: the pair is InProgress, was sent more than once
\* and the request sent by the step carries the transaction ID it stores.
RetransmittedWithSameTransaction ==
    \E p \in 1..Len(LoneAgent.heap) :
        /\ LoneAgent.heap[p].state = "InProgress"
        /\ LoneAgent.heap[p].retransmissions >= 1
        /\ LoneAgent.heap[p].transactionID # 0
        /\ \E msg \in RequestsSent(LoneAgent) :
            msg.tr_id = LoneAgent.heap[p].transactionID

(***************************************************************************)
(* Specification ValidationSpec: agent A alone, in either role, receives   *)
(* binding requests with any combination of the attributes that            *)
(* ice_handle_received_binding_request validates.                          *)
(***************************************************************************)
\* The tie-breakers of the requests: below and above that of agent A.
ValidationTieBreakers == {5, 20}

\* The request of RequestToA with the given attributes present, the
\* MESSAGE-INTEGRITY keyed with pwd and the given USERNAME.
ValidationRequest(flags, pwd, username, tie_breaker) ==
    [RequestToA(RtpB, RtpA, FALSE, flags.controlling, tie_breaker) EXCEPT
        !.hasMessageIntegrity = flags.integrity, !.integrity = pwd,
        !.hasUsername = flags.username, !.username = username,
        !.hasFingerprint = flags.fingerprint,
        !.hasPriority = flags.priority,
        !.hasIceControlling = flags.controlling,
        !.iceControlling = IF flags.controlling THEN tie_breaker ELSE 0,
        !.hasIceControlled = flags.controlled,
        !.iceControlled = IF flags.controlled THEN tie_breaker ELSE 0]

ValidationRequests ==
    {ValidationRequest(flags, pwd, username, tie_breaker) :
        flags \in [integrity : BOOLEAN, username : BOOLEAN, fingerprint : BOOLEAN,
                   priority : BOOLEAN, controlling : BOOLEAN, controlled : BOOLEAN],
        pwd \in {PwdA, PwdB},
        username \in {UfragA \o <<":">> \o UfragB, UfragB \o <<":">> \o UfragA},
        tie_breaker \in ValidationTieBreakers}

ReceiveValidationRequest ==
    \E packet \in ValidationRequests :
        \E after \in {ReceiveOf(ag["A"], packet)} :
            /\ budget > 0
            /\ ag' = [ag EXCEPT !["A"] = after]
            /\ budget' = budget - 1
            /\ UNCHANGED net

ValidationNext == Tick \/ ReceiveValidationRequest

ValidationSpec == Init /\ [][ValidationNext]_vars

\* The request lacks a mandatory attribute or does not carry exactly one of
\* ICE-CONTROLLING and ICE-CONTROLLED.
Malformed(packet) ==
    \/ ~packet.hasMessageIntegrity
    \/ ~packet.hasUsername
    \/ ~packet.hasFingerprint
    \/ ~packet.hasPriority
    \/ packet.hasIceControlling = packet.hasIceControlled

\* The request was answered with the error response 4xx of the given number
\* and nothing else was done.
RejectedWith(before, after, packet, number) ==
    after = [before EXCEPT !.out =
                <<ErrorToA(packet.tr_id, packet.dst, packet.src, 4, number)>>,
                           !.concluded = FALSE]

ValidatedInOrder(before, after, packet) ==
    IF Malformed(packet)
    THEN RejectedWith(before, after, packet, 0)
    ELSE IF packet.integrity # before.local_pwd
    THEN RejectedWith(before, after, packet, 1)
    ELSE IF packet.username # before.local_ufrag \o <<":">> \o before.remote_ufrag
    THEN RejectedWith(before, after, packet, 1)
    ELSE ~RepliedError(after) \/ RejectedWith(before, after, packet, 87)

\* C35: a binding request that lacks MESSAGE-INTEGRITY, USERNAME, FINGERPRINT
\* or PRIORITY, or that carries neither or both of ICE-CONTROLLING and
\* ICE-CONTROLLED, is answered with 400 whatever its integrity and username;
\* otherwise a wrong integrity is answered with 401 whatever its username;
\* otherwise a wrong username is answered with 401 and the role conflict is
\* not examined (no 487, no change of role).
RequestValidatedInOrder ==
    [][\A packet \in ValidationRequests :
        (budget' = budget - 1 /\ LoneAgent' = ReceiveOf(LoneAgent, packet))
            => ValidatedInOrder(LoneAgent, LoneAgent', packet)]_vars

(***************************************************************************)
(* Specification UsernameSpec: agent A alone, in either role, receives     *)
(* binding requests that are valid but for their USERNAME.                 *)
(***************************************************************************)
\* "<local ufrag>:<remote ufrag>", then usernames without colon, with an
\* empty left part, with a left part that is a proper prefix of the local
\* ufrag, that has the local ufrag as a proper prefix, that is the remote
\* ufrag, and one with a second colon.
Usernames ==
    {UfragA \o <<":">> \o UfragB,
     UfragA \o UfragB,
     UfragA,
     <<":">> \o UfragB,
     <<UfragA[1], ":">> \o UfragB,
     UfragA \o <<"x", ":">> \o UfragB,
     UfragB \o <<":">> \o UfragA,
     UfragA \o <<":">> \o UfragB \o <<":">> \o UfragB}

UsernameRequests ==
    {[RequestToA(RtpB, dst, FALSE, controlling, 20) EXCEPT !.username = username] :
        dst \in {RtpA, RtcpA}, controlling \in BOOLEAN, username \in Usernames}

ReceiveUsernameRequest ==
    \E packet \in UsernameRequests :
        \E after \in {ReceiveOf(ag["A"], packet)} :
            /\ budget > 0
            /\ ag' = [ag EXCEPT !["A"] = after]
            /\ budget' = budget - 1
            /\ UNCHANGED net

UsernameNext == Tick \/ ReceiveUsernameRequest

UsernameSpec == Init /\ [][UsernameNext]_vars

\* The positions of the colons of the username.
Colons(username) == {k \in 1..Len(username) : username[k] = ":"}

\* The part of the username before its first colon.
LeftPart(username) ==
    SubSeq(username, 1, (CHOOSE k \in Colons(username) :
                            \A other \in Colons(username) : k <= other) - 1)

\* The username passes the check as the claim states it.
UsernameMatches(username, ufrag) ==
    /\ Colons(username) # {}
    /\ LeftPart(username) = ufrag

\* C36: a binding request whose USERNAME has no colon, or whose part before
\* the first colon is not exactly the local ufrag (empty, a proper prefix of
\* it, longer or different), is answered with error 401 and nothing else is
\* done.
UsernameCheckedExactly ==
    [][\A packet \in UsernameRequests :
        (/\ budget' = budget - 1
         /\ ~UsernameMatches(packet.username, LoneAgent.local_ufrag)
         /\ LoneAgent' = ReceiveOf(LoneAgent, packet))
            => RejectedWith(LoneAgent, LoneAgent', packet, 1)]_vars

\* The pairs of the list are in descending order of pair priority.
DescendingPriority(cl, list) ==
    \A i, j \in 1..Len(list) :
        i < j => ~PriorityLess(cl.heap[list[i]].priority, cl.heap[list[j]].priority)

\* C37: in every reachable state the check list is ordered by descending
\* pair priority.
CheckListOrdered == DescendingPriority(LoneAgent, LoneAgent.check_list)

\* The pair is Succeeded, or has been: a valid pair of the valid list was
\* generated from it when its check succeeded.
HasSucceeded(cl, p) ==
    \/ cl.heap[p].state = "Succeeded"
    \/ \E k \in 1..Len(cl.valid_list) : cl.valid_list[k].generated_from = p

\* C38: a pair that has reached Succeeded is not Failed afterwards: no step
\* of the agent ends with a pair Failed that is Succeeded, or has succeeded,
\* when the step begins.
SucceededNeverFailed ==
    [][\A p \in 1..Len(LoneAgent.heap) :
        HasSucceeded(LoneAgent, p) => LoneAgent'.heap[p].state # "Failed"]_vars

\* The valid pairs of the list.
ValidPairsOf(cl) == {cl.valid_list[k] : k \in 1..Len(cl.valid_list)}

\* C39: no step of the agent (tick, binding request, success response, error
\* response) takes a Completed check list to another state, removes a valid
\* pair from the valid list or resets the nominated flag of a pair.
CompletedStaysCompleted ==
    [][/\ LoneAgent.state = "Completed" => LoneAgent'.state = "Completed"
       /\ ValidPairsOf(LoneAgent) \subseteq ValidPairsOf(LoneAgent')
       /\ \A p \in 1..Len(LoneAgent.heap) :
            LoneAgent.heap[p].is_nominated => LoneAgent'.heap[p].is_nominated]_vars

\* The check list was Completed at an earlier tick and a message received
\* since has run the conclusion again; a nominated pair has failed since.
ConcludedAgainWhenCompleted ==
    /\ LoneAgent.state = "Completed"
    /\ LoneAgent.time > LoneAgent.keepalive_time
    /\ LoneAgent.concluded
    /\ \E p \in 1..Len(LoneAgent.heap) :
        LoneAgent.heap[p].is_nominated /\ LoneAgent.heap[p].state = "Failed"

\* The pairs referenced by the pair pool, the check list, the triggered
\* checks queue and the valid list.
ReferencedPairs(cl) ==
    {cl.pairs[k] : k \in 1..Len(cl.pairs)}
        \cup {cl.check_list[k] : k \in 1..Len(cl.check_list)}
        \cup {cl.triggered_checks_queue[k] : k \in 1..Len(cl.triggered_checks_queue)}
        \cup {cl.valid_list[k].valid : k \in 1..Len(cl.valid_list)}
        \cup {cl.valid_list[k].generated_from : k \in 1..Len(cl.valid_list)}

\* C40: after the check list was cut down to max_connectivity_checks, no
\* pair that was freed is referenced by the pair pool, the check list, the
\* triggered checks queue or the valid list.
NoFreedPairReferenced ==
    \A p \in ReferencedPairs(LoneAgent) : ~LoneAgent.heap[p].freed

=============================================================================
